---- MODULE Spec2Model ----
(***************************************************************************)
(* A model of the session and device orchestration core of the IS74        *)
(* intercom integration (src/src/is74_integration): the HTTP transport,    *)
(* the authentication manager and its rate limiter, the device controller  *)
(* with its lock-reset timers and offline monitor, the event manager and   *)
(* the auto-open schedule.                                                 *)
(*                                                                         *)
(* Each component has its own specification (SpecTransport, SpecAutoOpen,  *)
(* ...) over the one set of variables: the variables of the other          *)
(* components stay at their initial values.                                *)
(***************************************************************************)
EXTENDS Integers, Sequences, FiniteSets, TLC

\* Python's None: as a string where the value is text or a record, and as Nil
\* where the value is a number (a status code, a datetime).
None == "None"
Nil == -1

(***************************************************************************)
(* The state                                                               *)
(***************************************************************************)

VARIABLES
    \* Transport: the request currently made through IS74ApiClient._request
    \*   pc       "idle" | "attempt" (an attempt awaits the client) | "done"
    \*   attempts number of attempts started
    \*   replies  what the client did on each attempt, in order
    \*   result   what _request gave its caller
    tr,
    \* ConfigManager._auto_open_config
    auto_open_config,
    \* the last should_auto_open call with its result: [call_time, result]
    \* (call_time is Nil before any call)
    auto_open_last,
    \* EventManager._history
    history,
    \* every event log_event created, in the order of the calls (the events'
    \* ids are their positions here: uuid4 never repeats)
    logged,
    \* the last history query and what it returned:
    \* [op, arg, limit, events] (op is None before any query)
    query,
    \* the clock, in ticks (TicksPerSecond of them make a second), and how
    \* many times it was advanced
    now, advances,
    \* AuthManager._failed_attempts, _lockout_until (Nil: no lockout), _auth_id
    failed_attempts, lockout_until, auth_id,
    \* AuthManager.tokens, the tokens save_tokens wrote to the token file, and
    \* the Authorization header of the transport
    tokens, saved_tokens, auth_header,
    \* the authentication calls in flight, per caller:
    \* [pc |-> "idle" | "posted", op |-> the method called]
    auth_calls,
    \* what the authentication call that ended last gave its caller:
    \* [op, outcome, retry_after, sent, issued, push] (sent: a request went
    \* to the vendor; issued: the vendor issued a token to this call; push:
    \* how login's request for the Firebase token went)
    auth_last,
    \* how many authentication calls in a row ended with an error of the
    \* transport, and when the last of three or more such calls ended
    streak, third_failure_at,
    \* DeviceController._devices_cache (<<>> is None and the empty list, which
    \* the truth test of get_devices does not tell apart), _cache_timestamp
    devices_cache, cache_timestamp,
    \* DeviceController._lock_reset_tasks: per device the tracked task (its
    \* index in tasks; Nil: no entry), and every task _reset_lock_status runs
    \* in: [device_id, wake_at, state, reopened, shutdown]
    \*   state    "sleeping" | "cancelled" | "done"
    \*   reopened an open_door for the device was called while it slept
    \*   shutdown cancel_all_reset_tasks cancelled it
    lock_reset_tasks, tasks,
    \* the DoorLockStatus objects handed to status_callback, in order
    lock_statuses,
    \* DeviceController._device_status (is_online as "online" | "offline",
    \* None: no entry), _last_successful_connection (Nil: no entry)
    device_status, last_successful_connection,
    \* the DeviceStatus objects handed to device_status_callback, in order
    device_statuses,
    \* DeviceController._monitoring_enabled, and when the task running
    \* _check_device_connections wakes next (Nil: no task)
    monitoring_enabled, monitor_wake,
    \* the calls of open_door and get_devices in flight, per caller:
    \* [pc, op, device_id, gets, force_refresh, main]
    \*   pc   "idle" | "get_main" | "get_secondary" (a list request awaits the
    \*        vendor) | "post" (the relay-open request awaits the vendor)
    \*   gets the list requests the call has sent
    \*   main the main list the vendor sent to the call
    device_calls,
    \* what the call that ended last gave its caller:
    \* [op, device_id, outcome, error_code, gets, posts, force_refresh,
    \* devices, main, secondary], and how many calls were made
    device_last, device_calls_made,
    \* AutoOpenManager.handle_call_event: the CallEvent each caller is
    \* handling while its open_door awaits the vendor, what the call handled
    \* last gave ([call_id, device_id, timestamp, result]), and how many call
    \* events were received
    call_events, handled_last, calls_received,
    \* whether DeviceController.close has returned, and the task of the push
    \* listener the application holds (app_state.fcm_task):
    \* "none" | "running" | "cancelled"
    closed, fcm_task,
    \* the subscribers of the event manager in the order they registered
    \* (_ha_callbacks), each by what it does when called, and the
    \* notification tasks log_event created, in the order of their creation:
    \* [event, pos, state, outcomes]
    ha_callbacks, notifications,
    \* the levels the logging configuration gives the handlers (global) and
    \* the loggers of the modules, and the lines the handlers have emitted
    log_config, log_sink,
    \* the flag of the auto-open route (api._auto_open_enabled), how many
    \* payloads the push client has handed to on_notification, and the event
    \* stream of the one connection followed:
    \* [pc, last_event_count, opened_at, emitted]
    \*   pc        "none" | "open" (the generator is in its loop)
    \*   opened_at how many events had been logged when it was opened
    \*   emitted   the ids of the events it has yielded, in order
    auto_open_enabled, push_received, stream,
    \* per device, when a get_devices that was watched last returned it with
    \* status online, from the vendor or from the cache (Nil: never)
    listed_online_at

logVars == <<log_config, log_sink>>
transportVars == <<tr, logVars>>
hostVars == <<auto_open_enabled, push_received, stream>>
lifeVars == <<closed, fcm_task, hostVars>>
deviceVars == <<devices_cache, cache_timestamp, lock_reset_tasks, tasks,
                lock_statuses, device_status, last_successful_connection,
                device_statuses, monitoring_enabled, monitor_wake,
                device_calls, device_last, device_calls_made, lifeVars>>
clockVars == <<now, advances, listed_online_at>>
authVars == <<failed_attempts, lockout_until, auth_id, tokens, saved_tokens, auth_header,
              auth_calls, auth_last, streak, third_failure_at>>
callVars == <<call_events, handled_last, calls_received>>
autoOpenVars == <<auto_open_config, auto_open_last, callVars>>
notifyVars == <<ha_callbacks, notifications>>
eventVars == <<history, logged, query, notifyVars>>

(***************************************************************************)
(* Transport: IS74ApiClient._request under tenacity's @retry               *)
(***************************************************************************)

\* stop_after_attempt(3)
STOP_AFTER_ATTEMPT == 3

Methods == {"GET", "POST", "PUT", "DELETE"}
Endpoints == {"/domofon/relays", "/mobile/auth/get-token"}
\* HTTP statuses a vendor reply can carry (both sides of the >= 400 test)
StatusCodes == {200, 399, 400, 401, 500}
Bodies == {"json", "text"}

\* What one call of self.client.request(...) can do: return a response, or
\* raise httpx.TimeoutException, httpx.NetworkError or anything else.
ClientOutcomes ==
    [kind : {"response"}, status : StatusCodes, body : Bodies]
    \cup [kind : {"TimeoutException", "NetworkError", "Exception"},
          status : {Nil}, body : {None}]


TrIdle ==
    [pc |-> "idle", method |-> None, endpoint |-> None, attempts |-> 0,
     replies |-> <<>>, result |-> [kind |-> None]]

\* response_data of the error: response.json(), or {"detail": response.text}
error_data(o) ==
    IF o.body = "json" THEN [json |-> o.body] ELSE [detail |-> o.body]

\* The body of _request without its handlers for httpx.TimeoutException and
\* httpx.NetworkError: they leave it as they are.
request_body_unwrapped(o) ==
    CASE o.kind = "response" /\ o.status >= 400 ->
            [kind |-> "raise", exc |-> "IS74ApiError", status_code |-> o.status,
             response_data |-> error_data(o)]
      [] o.kind = "response" ->
            [kind |-> "return", status_code |-> o.status, body |-> o.body]
      [] o.kind \in {"TimeoutException", "NetworkError"} ->
            [kind |-> "raise", exc |-> o.kind, status_code |-> Nil,
             response_data |-> None]
      [] OTHER ->
            [kind |-> "raise", exc |-> "IS74ApiError", status_code |-> Nil,
             response_data |-> None]

\* One run of the body of _request: what it returns or raises for what the
\* client did.
request_body(o) ==
    CASE o.kind = "response" /\ o.status >= 400 ->
            [kind |-> "raise", exc |-> "IS74ApiError", status_code |-> o.status,
             response_data |-> error_data(o)]
      [] o.kind = "response" ->
            [kind |-> "return", status_code |-> o.status, body |-> o.body]
      [] OTHER ->
            \* except httpx.TimeoutException / httpx.NetworkError / Exception:
            \* each is re-raised as IS74ApiError with no status code
            [kind |-> "raise", exc |-> "IS74ApiError", status_code |-> Nil,
             response_data |-> None]

\* retry=retry_if_exception_type((httpx.TimeoutException, httpx.NetworkError)):
\* tenacity tests the exception the decorated function raised.
retry_if_any_exception(r) ==
    r.kind = "raise"

retry_if_exception_type(r) ==
    r.kind = "raise" /\ r.exc \in {"TimeoutException", "NetworkError"}

\* A caller starts a request: the first attempt goes to the client.
TransportStart(m, e) ==
    /\ tr.pc \in {"idle", "done"}
    /\ tr' = [TrIdle EXCEPT !.pc = "attempt", !.method = m, !.endpoint = e,
                            !.attempts = 1]
    /\ UNCHANGED <<logVars, deviceVars, autoOpenVars, eventVars, clockVars, authVars>>

\* The client answers the attempt in flight; tenacity either starts the next
\* attempt or hands the outcome to the caller (reraise=True).
TransportAttemptEnds(o) ==
    /\ tr.pc = "attempt"
    /\ LET r == request_body(o)
           replies == Append(tr.replies, o)
       IN IF retry_if_exception_type(r) /\ tr.attempts < STOP_AFTER_ATTEMPT
          THEN tr' = [tr EXCEPT !.replies = replies, !.attempts = @ + 1]
          ELSE tr' = [tr EXCEPT !.replies = replies, !.pc = "done",
                                !.result = r]
    /\ UNCHANGED <<logVars, deviceVars, autoOpenVars, eventVars, clockVars, authVars>>

(***************************************************************************)
(* Auto-open: ConfigManager and AutoOpenManager.should_auto_open           *)
(***************************************************************************)

\* A datetime of the schedule check counts the ticks since a Monday 00:00;
\* a day has the times of day TimesOfDay.
TimesOfDay == {0, 1, 2}
DayLength == Cardinality(TimesOfDay)
CallTimes == 0..(7 * DayLength - 1)

\* datetime.weekday(): 0 is Monday ... 6 is Sunday (day_map)
weekday(dt) == (dt \div DayLength) % 7
\* datetime.time()
time_of(dt) == dt % DayLength

\* The day lists a schedule may carry, and how many schedules a configuration
\* may hold.
MaxSchedules == 2
DaySets == {{0}, {5, 6}}
\* <<time_start, time_end>>: windows of several instants, of one instant, and
\* an empty one (time_start after time_end)
Windows == {<<0, 1>>, <<1, 2>>, <<1, 1>>, <<2, 0>>}
AutoOpenSchedules ==
    {[days |-> d, time_start |-> w[1], time_end |-> w[2]] : d \in DaySets, w \in Windows}

\* for schedule in config.schedules: ... (the loop from its i-th schedule on)
RECURSIVE schedule_matches_from(_, _, _)
schedule_matches_from(schedules, i, call_time) ==
    IF i > Len(schedules) THEN FALSE
    ELSE IF weekday(call_time) \notin schedules[i].days
         THEN schedule_matches_from(schedules, i + 1, call_time)
         ELSE IF /\ schedules[i].time_start <= time_of(call_time)
                 /\ time_of(call_time) <= schedules[i].time_end
              THEN TRUE
              ELSE schedule_matches_from(schedules, i + 1, call_time)

should_auto_open_end_exclusive(config, call_time) ==
    /\ config.enabled
    /\ \/ config.schedules = <<>>
       \/ \E i \in 1..Len(config.schedules) :
             /\ weekday(call_time) \in config.schedules[i].days
             /\ config.schedules[i].time_start <= time_of(call_time)
             /\ time_of(call_time) < config.schedules[i].time_end

should_auto_open(config, call_time) ==
    IF ~config.enabled THEN FALSE
    ELSE IF config.schedules = <<>> THEN TRUE
    ELSE schedule_matches_from(config.schedules, 1, call_time)

\* ConfigManager.enable_auto_open
enable_auto_open(enabled) ==
    /\ auto_open_config' = [auto_open_config EXCEPT !.enabled = enabled]
    /\ UNCHANGED <<transportVars, deviceVars, eventVars, clockVars, authVars,
                   auto_open_last, callVars>>

\* ConfigManager.add_auto_open_schedule
add_auto_open_schedule(schedule) ==
    /\ Len(auto_open_config.schedules) < MaxSchedules
    /\ auto_open_config' =
          [auto_open_config EXCEPT !.schedules = Append(@, schedule)]
    /\ UNCHANGED <<transportVars, deviceVars, eventVars, clockVars, authVars,
                   auto_open_last, callVars>>

\* ConfigManager.clear_auto_open_schedules
clear_auto_open_schedules ==
    /\ auto_open_config' = [auto_open_config EXCEPT !.schedules = <<>>]
    /\ UNCHANGED <<transportVars, deviceVars, eventVars, clockVars, authVars,
                   auto_open_last, callVars>>

\* should_auto_open(call_time) on the current configuration
ShouldAutoOpen(call_time) ==
    /\ auto_open_last' =
          [call_time |-> call_time,
           result |-> should_auto_open(auto_open_config, call_time)]
    /\ UNCHANGED <<transportVars, deviceVars, eventVars, clockVars, authVars,
                   auto_open_config, callVars>>

(***************************************************************************)
(* EventManager: log_event and the history queries                         *)
(***************************************************************************)

MAX_HISTORY_SIZE == 100
\* EventManager() is built with the default max_history
max_history == MAX_HISTORY_SIZE

\* Some members of EventType, and the device ids events are logged for.
EventTypes == {"call", "auto_open"}
DeviceIds == {"d1", "d2"}

\* The event log is followed over MaxEvents calls of log_event; the first
\* MaxVaried of them take any type and device, the later ones are calls at d1.
MaxEvents == 102
\* The subscribers are followed over MaxCallbacks registrations and
\* MaxNotified events.
MaxCallbacks == 2
MaxNotified == 3
MaxVaried == 2
\* The history queries are followed over histories of MaxQueried events and
\* for the limits 0..MaxLimit.
MaxQueried == 3
MaxLimit == 4

\* seq[-k:] of Python for k >= 0: the last k elements, and all of seq for
\* k = 0 (-0 is 0, the slice from the first element)
slice_last(seq, k) ==
    IF k = 0 THEN seq
    ELSE SubSeq(seq, (IF Len(seq) > k THEN Len(seq) - k ELSE 0) + 1, Len(seq))

\* seq[:k] of Python for k >= 0
slice_first(seq, k) ==
    SubSeq(seq, 1, IF Len(seq) > k THEN k ELSE Len(seq))

\* list.reverse()
reverse(seq) == [i \in 1..Len(seq) |-> seq[Len(seq) + 1 - i]]

\* [e for e in seq if e.<field> == value] (the list from its i-th element on)
RECURSIVE filter_from(_, _, _, _)
filter_from(seq, i, field, value) ==
    IF i > Len(seq) THEN <<>>
    ELSE IF seq[i][field] = value
         THEN <<seq[i]>> \o filter_from(seq, i + 1, field, value)
         ELSE filter_from(seq, i + 1, field, value)

\* The history after the append, cut to max_history.
trim_keeping_oldest(h) ==
    IF Len(h) > max_history THEN slice_first(h, max_history) ELSE h

trim(h) ==
    IF Len(h) > max_history THEN slice_last(h, max_history) ELSE h

\* metadata or {}: the keys handle_call_event fills, all absent
NoMetadata ==
    [call_id |-> Nil, call_timestamp |-> <<>>, auto_opened |-> FALSE,
     error |-> None, error_code |-> None]

\* event = Event(id=str(uuid.uuid4()), type=event_type, device_id=device_id,
\* timestamp=datetime.now(), metadata=metadata or {}) (the id the number of
\* the event)
new_event(event_type, device_id, metadata) ==
    [id |-> Len(logged) + 1, type |-> event_type, device_id |-> device_id,
     metadata |-> metadata]

\* What a subscriber does when it is called: it returns, it raises an
\* Exception, or it never completes.
Callbacks == {"returns", "raises", "hangs"}

\* The notification awaited in log_event instead (await
\* self._notify_callbacks(event)): log_event is inside it until the
\* subscribers are through.
create_task_awaited(event) ==
    Append(notifications,
           [event |-> event.id, pos |-> 1,
            state |-> IF ha_callbacks = <<>> THEN "done" ELSE "awaiting",
            outcomes |-> <<>>])

\* asyncio.create_task(self._notify_callbacks(event)): the task is created
\* and left to the event loop; it has run nothing when log_event returns.
create_task(event) ==
    Append(notifications,
           [event |-> event.id, pos |-> 1, state |-> "pending", outcomes |-> <<>>])

\* EventManager.log_event: the event is created and, under the lock,
\* appended and the history trimmed; the notification task is created and
\* the event returned.
log_event(event_type, device_id) ==
    LET event == new_event(event_type, device_id, NoMetadata)
    IN /\ history' = trim(Append(history, event))
       /\ logged' = Append(logged, event)
       /\ notifications' = create_task(event)
       /\ UNCHANGED ha_callbacks
       /\ UNCHANGED <<transportVars, deviceVars, autoOpenVars, clockVars, authVars, query>>

\* EventManager.register_home_assistant_callback
register_home_assistant_callback(callback) ==
    /\ ha_callbacks' = Append(ha_callbacks, callback)
    /\ UNCHANGED <<transportVars, deviceVars, autoOpenVars, clockVars, authVars,
                   history, logged, query, notifications>>

\* EventManager._notify_callbacks, the task of notifications[i], runs up to
\* its next suspension: it ends when no callback is left ("if not
\* self._ha_callbacks: return", the end of the for loop); it calls the next
\* callback otherwise, goes on when the callback returns, logs the error and
\* goes on when it raises (except Exception), and stays at the await when
\* the callback never completes.
notify_callbacks(i) ==
    LET task == notifications[i]
        callback == ha_callbacks[task.pos]
        next == [task EXCEPT !.pos = task.pos + 1]
    IN
    /\ task.state = "pending"
    /\ notifications' = [notifications EXCEPT ![i] =
          IF task.pos > Len(ha_callbacks)
          THEN [task EXCEPT !.state = "done"]
          ELSE CASE callback = "returns" ->
                      [next EXCEPT !.outcomes = Append(task.outcomes, "returned")]
                 [] callback = "raises" ->
                      [next EXCEPT !.outcomes = Append(task.outcomes, "error logged")]
                 [] callback = "hangs" ->
                      [task EXCEPT !.state = "awaiting",
                                   !.outcomes = Append(task.outcomes, "awaited")]]
    /\ UNCHANGED <<transportVars, deviceVars, autoOpenVars, clockVars, authVars,
                   history, logged, query, ha_callbacks>>

\* events = seq[-limit:] if limit < len(seq) else seq.copy(); events.reverse()
most_recent(seq, limit) ==
    reverse(IF limit < Len(seq) THEN slice_last(seq, limit) ELSE seq)

\* EventManager.get_history
get_history(limit) ==
    /\ query' = [op |-> "get_history", arg |-> None, limit |-> limit,
                 events |-> most_recent(history, limit)]
    /\ UNCHANGED <<transportVars, deviceVars, autoOpenVars, clockVars, authVars, history, logged, notifyVars>>

\* EventManager.get_history_by_type
get_history_by_type(event_type, limit) ==
    LET filtered == filter_from(history, 1, "type", event_type)
    IN /\ query' = [op |-> "get_history_by_type", arg |-> event_type,
                    limit |-> limit, events |-> most_recent(filtered, limit)]
       /\ UNCHANGED <<transportVars, deviceVars, autoOpenVars, clockVars, authVars, history, logged, notifyVars>>

\* EventManager.get_history_by_device
get_history_by_device(device_id, limit) ==
    LET filtered == filter_from(history, 1, "device_id", device_id)
    IN /\ query' = [op |-> "get_history_by_device", arg |-> device_id,
                    limit |-> limit, events |-> most_recent(filtered, limit)]
       /\ UNCHANGED <<transportVars, deviceVars, autoOpenVars, clockVars, authVars, history, logged, notifyVars>>

(***************************************************************************)
(* AuthManager: the authentication calls and the rate limiter              *)
(***************************************************************************)

\* The clock counts ticks; datetime differences are seconds with a fraction.
TicksPerSecond == 2
Seconds(n) == n * TicksPerSecond

MAX_FAILED_ATTEMPTS == 3
LOCKOUT_DURATION_SECONDS == 300

\* The counter is followed up to MaxFailedAttempts, over MaxAdvances advances
\* of the clock, each by one of AdvanceSteps ticks: a tick, and the lockout
\* duration less a tick and in full.
MaxFailedAttempts == 4
MaxAdvances == 2
AdvanceSteps ==
    {1, Seconds(LOCKOUT_DURATION_SECONDS) - 1, Seconds(LOCKOUT_DURATION_SECONDS)}

AuthOps == {"request_auth_code", "verify_code", "get_access_token"}
AuthCallers == {"a", "b"}

\* What the vendor's answer to an authentication request can be: an
\* IS74ApiError from the transport, a reply as expected (with or without an
\* authId), or, for get-token, a reply that lacks a required field.
AuthReplies(op) ==
    IF op \in {"get_access_token", "refresh_token_if_needed"}
    THEN {"IS74ApiError", "ok", "missing_fields"}
    ELSE {"IS74ApiError", "ok", "ok_no_authId"}

\* The ACCESS_END of the tokens the vendor issues.
AccessEnds == {Seconds(3 * LOCKOUT_DURATION_SECONDS)}
NoTokens ==
    [access_token |-> None, expires_at |-> Nil, authid |-> None,
     phone |-> None, firebase_token |-> None]
NoCall == [pc |-> "idle", op |-> None]
NoAuthResult ==
    [op |-> None, outcome |-> None, retry_after |-> Nil, sent |-> FALSE,
     issued |-> FALSE, push |-> None]

\* int(timedelta.total_seconds()) of a positive number of ticks
int_total_seconds(ticks) == ticks \div TicksPerSecond

\* AuthManager._check_rate_limit: whether it raises RateLimitError
rate_limited == lockout_until # Nil /\ now < lockout_until
\* ... and the retry_after the error carries
remaining == int_total_seconds(lockout_until - now)

\* AuthManager._record_failed_attempt: the counter and the deadline after it
record_failed_attempt ==
    [failed_attempts |-> failed_attempts + 1,
     lockout_until |-> IF failed_attempts + 1 >= MAX_FAILED_ATTEMPTS
                       THEN now + Seconds(LOCKOUT_DURATION_SECONDS)
                       ELSE lockout_until]

\* AuthManager._reset_failed_attempts
reset_failed_attempts_keeping_counter ==
    [failed_attempts |-> failed_attempts, lockout_until |-> Nil]

reset_failed_attempts ==
    [failed_attempts |-> 0, lockout_until |-> Nil]

\* The consecutive transport failures, as the call ending now leaves them.
StreakAfter(outcome) ==
    IF outcome = "IS74ApiError"
    THEN IF streak < MAX_FAILED_ATTEMPTS THEN streak + 1 ELSE streak
    ELSE 0

\* A caller calls request_auth_code, verify_code or get_access_token: the call
\* is rejected by _check_rate_limit, or its request is posted and the call
\* awaits the vendor.
AuthCallStart(c, op) ==
    /\ auth_calls[c].pc = "idle"
    /\ IF rate_limited
       THEN /\ auth_last' = [op |-> op, outcome |-> "RateLimitError",
                             retry_after |-> remaining, sent |-> FALSE,
                             issued |-> FALSE, push |-> None]
            /\ UNCHANGED auth_calls
       ELSE /\ auth_calls' = [auth_calls EXCEPT ![c] = [pc |-> "posted", op |-> op]]
            /\ UNCHANGED auth_last
    /\ UNCHANGED <<failed_attempts, lockout_until, auth_id, tokens, saved_tokens, auth_header,
                   streak, third_failure_at>>
    /\ UNCHANGED <<transportVars, deviceVars, autoOpenVars, eventVars, clockVars>>

\* The vendor answers a posted call and the call runs to its end.
AuthCallEnd(c, reply, access_end) ==
    LET op == auth_calls[c].op
        failed == record_failed_attempt
        reset == reset_failed_attempts
        issued == [NoTokens EXCEPT !.access_token = "token",
                                    !.expires_at = access_end,
                                    !.authid = "authId"]
    IN
    /\ auth_calls[c].pc = "posted"
    /\ reply \in AuthReplies(op)
    /\ auth_calls' = [auth_calls EXCEPT ![c] = NoCall]
    /\ CASE reply = "IS74ApiError" ->
            \* except IS74ApiError: self._record_failed_attempt(); raise
            /\ failed_attempts' = failed.failed_attempts
            /\ lockout_until' = failed.lockout_until
            /\ auth_last' = [op |-> op, outcome |-> "AuthenticationError",
                             retry_after |-> Nil, sent |-> TRUE,
                             issued |-> FALSE, push |-> None]
            /\ UNCHANGED <<auth_id, tokens, saved_tokens, auth_header>>
         [] reply = "missing_fields" ->
            \* raise AuthenticationError("Invalid token response ..."): not an
            \* IS74ApiError, so no except clause of the method handles it
            /\ auth_last' = [op |-> op, outcome |-> "AuthenticationError",
                             retry_after |-> Nil, sent |-> TRUE,
                             issued |-> FALSE, push |-> None]
            /\ UNCHANGED <<failed_attempts, lockout_until, auth_id, tokens,
                           saved_tokens, auth_header>>
         [] op \in {"get_access_token", "refresh_token_if_needed"} /\ reply = "ok" ->
            \* (refresh_token_if_needed returns True where get_access_token
            \* returns the tokens)
            /\ tokens' = issued
            /\ auth_header' = issued.access_token
            /\ saved_tokens' = issued
            /\ failed_attempts' = reset.failed_attempts
            /\ lockout_until' = reset.lockout_until
            /\ auth_last' = [op |-> op,
                             outcome |-> IF op = "get_access_token" THEN "ok"
                                         ELSE "True",
                             retry_after |-> Nil, sent |-> TRUE,
                             issued |-> TRUE, push |-> None]
            /\ UNCHANGED auth_id
         [] OTHER ->
            \* request_auth_code and verify_code succeed: the authId of the
            \* reply, if any, is kept
            /\ auth_id' = IF reply = "ok" THEN "authId" ELSE auth_id
            /\ auth_last' = [op |-> op, outcome |-> "ok", retry_after |-> Nil,
                             sent |-> TRUE, issued |-> FALSE, push |-> None]
            /\ UNCHANGED <<failed_attempts, lockout_until, tokens, saved_tokens, auth_header>>
    /\ streak' = StreakAfter(reply)
    /\ third_failure_at' =
          IF StreakAfter(reply) >= MAX_FAILED_ATTEMPTS THEN now
          ELSE third_failure_at
    /\ UNCHANGED <<transportVars, deviceVars, autoOpenVars, eventVars, clockVars>>

\* The threshold_seconds of TokenSet.expires_soon
REFRESH_THRESHOLD_SECONDS == 300

\* TokenSet.expires_soon, a tick more eager
expires_soon_a_tick_early(t) ==
    now >= t.expires_at - Seconds(REFRESH_THRESHOLD_SECONDS) - 1

\* TokenSet.expires_soon: datetime.now() >= expires_at - timedelta(seconds=
\* threshold_seconds)
expires_soon(t) == now >= t.expires_at - Seconds(REFRESH_THRESHOLD_SECONDS)

\* AuthManager.refresh_token_if_needed, up to its first suspension: it raises
\* for want of tokens or of their authid, returns False while the token does
\* not expire soon, and otherwise calls get_access_token, whose
\* RateLimitError it catches with every other exception and raises again as
\* AuthenticationError.
refresh_token_if_needed(c) ==
    LET op == "refresh_token_if_needed"
        ends(outcome) == [op |-> op, outcome |-> outcome, retry_after |-> Nil,
                          sent |-> FALSE, issued |-> FALSE, push |-> None]
    IN
    /\ auth_calls[c].pc = "idle"
    /\ CASE tokens = NoTokens ->
            auth_last' = ends("AuthenticationError") /\ UNCHANGED auth_calls
         [] tokens # NoTokens /\ ~expires_soon(tokens) ->
            auth_last' = ends("False") /\ UNCHANGED auth_calls
         [] tokens # NoTokens /\ expires_soon(tokens) /\ tokens.authid = None ->
            auth_last' = ends("AuthenticationError") /\ UNCHANGED auth_calls
         [] OTHER ->
            IF rate_limited
            THEN auth_last' = ends("AuthenticationError") /\ UNCHANGED auth_calls
            ELSE /\ auth_calls' = [auth_calls EXCEPT ![c] = [pc |-> "posted", op |-> op]]
                 /\ UNCHANGED auth_last
    /\ UNCHANGED <<failed_attempts, lockout_until, auth_id, tokens, saved_tokens, auth_header,
                   streak, third_failure_at>>
    /\ UNCHANGED <<transportVars, deviceVars, autoOpenVars, eventVars, clockVars>>

\* The ACCESS_END of the tokens the vendor issues to login: a date that has
\* passed, and one to come.
LoginAccessEnds == {0, Seconds(3 * LOCKOUT_DURATION_SECONDS)}

\* TokenSet.is_expired
is_expired(t) == now >= t.expires_at

\* AuthManager.is_authenticated, for the tokens t
is_authenticated(t) == t # NoTokens /\ ~is_expired(t)

\* What login would give its caller, were a failed request for the Firebase
\* token to fail it.
login_result_push_fatal(push) ==
    IF push = "failed" THEN "AuthenticationError" ELSE "TokenSet"

\* try: await self.get_firebase_token(...) except Exception as e: (a
\* warning is logged); return tokens
login_result(push) == "TokenSet"

\* AuthManager.login, up to its first suspension: verify_code checks the rate
\* limit and posts its request.
login(c) ==
    /\ auth_calls[c].pc = "idle"
    /\ IF rate_limited
       THEN /\ auth_last' = [NoAuthResult EXCEPT !.op = "login",
                                !.outcome = "RateLimitError",
                                !.retry_after = remaining]
            /\ UNCHANGED auth_calls
       ELSE /\ auth_calls' = [auth_calls EXCEPT ![c] =
                   [pc |-> "login_verify", op |-> "login"]]
            /\ UNCHANGED auth_last
    /\ UNCHANGED <<failed_attempts, lockout_until, auth_id, tokens, saved_tokens,
                   auth_header, streak, third_failure_at>>
    /\ UNCHANGED <<transportVars, deviceVars, autoOpenVars, eventVars, clockVars>>

\* The vendor answers login's verify request: verify_code counts a failure
\* and raises, or keeps the authId; login raises for a reply without authId,
\* and otherwise calls get_access_token, which checks the rate limit and
\* posts its request.
LoginVerifyReply(c, reply) ==
    LET failed == record_failed_attempt
        raised(outcome) == [NoAuthResult EXCEPT !.op = "login",
                               !.outcome = outcome, !.sent = TRUE]
    IN
    /\ auth_calls[c].pc = "login_verify"
    /\ reply \in AuthReplies("verify_code")
    /\ CASE reply = "IS74ApiError" ->
            /\ failed_attempts' = failed.failed_attempts
            /\ lockout_until' = failed.lockout_until
            /\ auth_last' = raised("AuthenticationError")
            /\ auth_calls' = [auth_calls EXCEPT ![c] = NoCall]
            /\ UNCHANGED auth_id
         [] reply = "ok_no_authId" ->
            \* raise AuthenticationError("Invalid verify response: missing
            \* authId")
            /\ auth_last' = raised("AuthenticationError")
            /\ auth_calls' = [auth_calls EXCEPT ![c] = NoCall]
            /\ UNCHANGED <<failed_attempts, lockout_until, auth_id>>
         [] OTHER ->
            /\ auth_id' = "authId"
            /\ IF rate_limited
               THEN /\ auth_last' = [raised("RateLimitError") EXCEPT
                                        !.retry_after = remaining]
                    /\ auth_calls' = [auth_calls EXCEPT ![c] = NoCall]
               ELSE /\ auth_calls' = [auth_calls EXCEPT ![c] =
                           [pc |-> "login_token", op |-> "login"]]
                    /\ UNCHANGED auth_last
            /\ UNCHANGED <<failed_attempts, lockout_until>>
    /\ streak' = StreakAfter(reply)
    /\ third_failure_at' =
          IF StreakAfter(reply) >= MAX_FAILED_ATTEMPTS THEN now
          ELSE third_failure_at
    /\ UNCHANGED <<tokens, saved_tokens, auth_header>>
    /\ UNCHANGED <<transportVars, deviceVars, autoOpenVars, eventVars, clockVars>>

\* The vendor answers login's get-token request: get_access_token counts a
\* failure and raises, or stores and saves the tokens; login then sets the
\* phone, saves again and asks for the Firebase token, which
\* get_firebase_token stores and saves unless is_authenticated() fails it.
LoginTokenReply(c, reply, access_end) ==
    LET failed == record_failed_attempt
        reset == reset_failed_attempts
        raised == [NoAuthResult EXCEPT !.op = "login",
                      !.outcome = "AuthenticationError", !.sent = TRUE]
        issued == [NoTokens EXCEPT !.access_token = "token",
                                    !.expires_at = access_end,
                                    !.authid = "authId",
                                    !.phone = "phone"]
        push == IF is_authenticated(issued) THEN "ok" ELSE "failed"
        kept == IF push = "ok" THEN [issued EXCEPT !.firebase_token = "firebase"]
                ELSE issued
    IN
    /\ auth_calls[c].pc = "login_token"
    /\ reply \in AuthReplies("get_access_token")
    /\ auth_calls' = [auth_calls EXCEPT ![c] = NoCall]
    /\ CASE reply = "IS74ApiError" ->
            /\ failed_attempts' = failed.failed_attempts
            /\ lockout_until' = failed.lockout_until
            /\ auth_last' = raised
            /\ UNCHANGED <<tokens, saved_tokens, auth_header>>
         [] reply = "missing_fields" ->
            /\ auth_last' = raised
            /\ UNCHANGED <<failed_attempts, lockout_until, tokens, saved_tokens,
                           auth_header>>
         [] OTHER ->
            /\ tokens' = kept
            /\ saved_tokens' = kept
            /\ auth_header' = issued.access_token
            /\ failed_attempts' = reset.failed_attempts
            /\ lockout_until' = reset.lockout_until
            /\ auth_last' = [NoAuthResult EXCEPT !.op = "login",
                                !.outcome = login_result(push), !.sent = TRUE,
                                !.issued = TRUE, !.push = push]
    /\ streak' = StreakAfter(reply)
    /\ third_failure_at' =
          IF StreakAfter(reply) >= MAX_FAILED_ATTEMPTS THEN now
          ELSE third_failure_at
    /\ UNCHANGED auth_id
    /\ UNCHANGED <<transportVars, deviceVars, autoOpenVars, eventVars, clockVars>>

\* AuthManager.clear_tokens: the tokens, the bearer header and the saved file
clear_tokens ==
    /\ tokens' = NoTokens
    /\ auth_header' = None
    /\ saved_tokens' = NoTokens
    /\ UNCHANGED <<failed_attempts, lockout_until, auth_id, auth_calls, auth_last,
                   streak, third_failure_at>>
    /\ UNCHANGED <<transportVars, deviceVars, autoOpenVars, eventVars, clockVars>>

\* AuthManager.set_tokens: the tokens, the bearer header and the token file
\* after it
set_tokens(t, save) ==
    [tokens |-> t, auth_header |-> t.access_token,
     saved_tokens |-> IF save THEN t ELSE saved_tokens]

\* AuthManager.load_tokens: the tokens and the bearer header of a new
\* AuthManager and a new IS74ApiClient once the token file was read. Tokens
\* that are expired are kept when they carry an authid, without set_tokens.
load_tokens ==
    IF saved_tokens = NoTokens
    THEN [tokens |-> NoTokens, auth_header |-> None]
    ELSE IF is_expired(saved_tokens)
    THEN IF saved_tokens.authid # None
         THEN [tokens |-> saved_tokens, auth_header |-> None]
         ELSE [tokens |-> NoTokens, auth_header |-> None]
    ELSE [tokens |-> set_tokens(saved_tokens, FALSE).tokens,
          auth_header |-> set_tokens(saved_tokens, FALSE).auth_header]

\* The application starts again on the token file of the run before:
\* lifespan constructs the IS74ApiClient and the AuthManager, whose __init__
\* ends with load_tokens().
AuthManagerInit ==
    /\ \A c \in AuthCallers : auth_calls[c].pc = "idle"
    /\ failed_attempts' = 0
    /\ lockout_until' = Nil
    /\ auth_id' = None
    /\ tokens' = load_tokens.tokens
    /\ auth_header' = load_tokens.auth_header
    /\ streak' = 0
    /\ third_failure_at' = Nil
    /\ UNCHANGED <<saved_tokens, auth_calls, auth_last>>
    /\ UNCHANGED <<transportVars, deviceVars, autoOpenVars, eventVars, clockVars>>

\* Time passes.
AuthAdvance(d) ==
    /\ now' = now + d
    /\ advances' = advances + 1
    /\ UNCHANGED listed_online_at
    /\ UNCHANGED <<transportVars, deviceVars, autoOpenVars, eventVars, authVars>>

(***************************************************************************)
(* DeviceController: the device list and its cache, open_door, the         *)
(* lock-reset tasks and the connection monitor. Both callbacks are         *)
(* registered and synchronous: what they are handed is what is published.  *)
(***************************************************************************)

LOCK_RESET_DELAY_SECONDS == 5
CONNECTION_TIMEOUT_SECONDS == 30
STATUS_CHECK_INTERVAL_SECONDS == 10
\* if cache_age < 30
CacheTtlSeconds == 30

\* Device.is_online
is_online(device) == device.status = "online"

DeviceCallers == {"a", "b"}
\* The order the devices entered _last_successful_connection (a dict).
DeviceOrder == <<"d1", "d2">>

\* The device lists the vendor may send: d1 is in some of them, d2 in none.
VendorLists ==
    {<<>>, <<[id |-> "d1", status |-> "online"]>>,
     <<[id |-> "d1", status |-> "unknown"]>>}
\* What the vendor's answer to GET /domofon/relays can be.
ListReplies ==
    [kind : {"list"}, items : VendorLists]
    \cup [kind : {"IS74ApiError"}, items : {<<>>}]
\* What the answer to POST /domofon/relays/{relay_id}/open can be: a reply,
\* an IS74ApiError with or without a status code, or a reply that is no JSON.
PostReplies ==
    [kind : {"ok", "Exception"}, status_code : {Nil}]
    \cup [kind : {"IS74ApiError"}, status_code : {Nil, 500}]

\* The calls made are followed up to MaxDeviceCalls (MaxListCalls where the
\* list matters and not the timers), with the clock advanced at most
\* MaxDeviceAdvances times.
MaxDeviceCalls == 3
MaxListCalls == 2
MaxDeviceAdvances == 3
\* The lock-reset tasks are followed for one known device, with the vendor
\* sending it online or failing, and the clock moving in steps shorter than
\* the reset delay.
\* The relay-open request is followed through the transport for the calls
\* of one caller.
RelayCallers == {"a"}
LockResetDevices == {"d1"}
LockResetListReplies ==
    {r \in ListReplies : r.kind = "IS74ApiError" \/ (r.items # <<>> /\ is_online(r.items[1]))}
LockResetPostReplies == {r \in PostReplies : r.kind # "Exception" /\ r.status_code = Nil}
LockResetSteps == {Seconds(2), Seconds(3)}
\* The timers of two devices are followed over MaxTimerCalls calls of
\* open_door, with the vendor listing both devices, and the clock stopping
\* between the wake-ups at most MaxTimerAdvances times, 3 s after the last.
TimerListReplies ==
    [kind : {"list"},
     items : {<<[id |-> "d1", status |-> "online"],
                [id |-> "d2", status |-> "online"]>>}]
TimerSteps == {Seconds(3)}
MaxTimerCalls == 2
MaxTimerAdvances == 1
\* The shutdown is followed while the clock is below MaxShutdownSeconds.
MaxShutdownSeconds == 10
\* The device cache is followed with the clock moving by a tick and by a tick
\* less than the cache's time to live.
\* ... and the vendor sending d1 online, no device, or failing.
CacheListReplies ==
    {r \in ListReplies : r.items = <<>> \/ is_online(r.items[1])}
CacheSteps == {1, Seconds(CacheTtlSeconds) - 1}
MaxCacheAdvances == 2
\* With the event loop running, every sleep comes to its end; the clock
\* stops in between at most MaxLiveAdvances times.
MaxLiveAdvances == 1
\* The enumeration is followed with the vendor sending no item, d1, d2, or an
\* item without MAC, or failing.
EnumerationReplies ==
    [kind : {"list"},
     items : {<<>>, <<[id |-> "d1", status |-> "online"]>>,
              <<[id |-> "d2", status |-> "online"]>>,
              <<[id |-> None, status |-> "online"]>>}]
    \cup [kind : {"IS74ApiError"}, items : {<<>>}]
\* The monitor is followed with the clock moving by half and all of the
\* interval between its checks.
MonitorSteps == {Seconds(5), Seconds(STATUS_CHECK_INTERVAL_SECONDS)}
MaxMonitorAdvances == 5
\* The status published for d1 is followed over MaxEnumerations calls of
\* get_devices, which the vendor answers with d1 in the list or fails.
MaxEnumerations == 3
MaxOnlineAdvances == 2
OnlineListReplies == {r \in ListReplies : r.kind = "IS74ApiError" \/ r.items # <<>>}

NoStream ==
    [pc |-> "none", last_event_count |-> 0, opened_at |-> 0, emitted |-> <<>>]
NoDeviceCall ==
    [pc |-> "idle", op |-> None, device_id |-> None, gets |-> 0,
     force_refresh |-> FALSE, main |-> <<>>]
NoDeviceResult ==
    [op |-> None, device_id |-> None, outcome |-> None, error_code |-> None,
     gets |-> 0, posts |-> 0, force_refresh |-> FALSE, devices |-> <<>>,
     main |-> <<>>, secondary |-> <<>>]

\* What a call raised or returned without a device list.
Result(call, outcome, error_code, posts) ==
    [op |-> call.op, device_id |-> call.device_id, outcome |-> outcome,
     error_code |-> error_code, gets |-> call.gets, posts |-> posts,
     force_refresh |-> call.force_refresh, devices |-> <<>>,
     main |-> <<>>, secondary |-> <<>>]

\* if not mac: continue (an item without any of the MAC keys gives no Device)
has_mac(item) == item.id # None

\* for item in device_list: ... devices.append(device)
devices_of(device_list) == SelectSeq(device_list, has_mac)

\* The test for the secondary list, had it been made on the devices built.
no_device_built(device_list) == devices_of(device_list) = <<>>

\* if not device_list or len(device_list) == 0 (the list as the vendor sent
\* it, before the items without MAC are dropped)
main_is_empty(device_list) == device_list = <<>>

\* The cache test of get_devices: whether the cached list is returned.
cache_hit_when_empty(force_refresh) ==
    /\ ~force_refresh
    /\ cache_timestamp # Nil
    /\ now - cache_timestamp < Seconds(CacheTtlSeconds)

cache_hit(force_refresh) ==
    /\ ~force_refresh
    /\ devices_cache # <<>>
    /\ cache_timestamp # Nil
    /\ now - cache_timestamp < Seconds(CacheTtlSeconds)

\* The status tracking as update_device_status reads and writes it.
Tracked ==
    [device_status |-> device_status, last |-> last_successful_connection,
     published |-> device_statuses]

\* update_device_status notifying on every call, changed or not
update_device_status_always(st, device_id, online) ==
    [device_status |->
        [st.device_status EXCEPT
            ![device_id] = IF online THEN "online" ELSE "offline"],
     last |-> IF online THEN [st.last EXCEPT ![device_id] = now] ELSE st.last,
     published |-> Append(st.published,
                          [device_id |-> device_id, is_online |-> online,
                           timestamp |-> now, last_seen |-> st.last[device_id]])]

\* DeviceController.update_device_status: the tracking after the call
update_device_status(st, device_id, online) ==
    LET current == st.device_status[device_id]
        status_changed == current = None \/ (current = "online") # online
        new_status == [device_id |-> device_id, is_online |-> online,
                       timestamp |-> now, last_seen |-> st.last[device_id]]
    IN [device_status |->
            [st.device_status EXCEPT
                ![device_id] = IF online THEN "online" ELSE "offline"],
        last |-> IF online THEN [st.last EXCEPT ![device_id] = now] ELSE st.last,
        published |-> IF status_changed THEN Append(st.published, new_status)
                      ELSE st.published]

\* for device in devices: await self.update_device_status(device.id,
\* device.is_online) (the loop from the i-th device on)
RECURSIVE update_from(_, _, _)
update_from(st, devices, i) ==
    IF i > Len(devices) THEN st
    ELSE update_from(update_device_status(st, devices[i].id, is_online(devices[i])),
                     devices, i + 1)

\* What one call leaves when get_devices has given it the list: get_devices
\* returns it; open_door goes on to the relay-open request when the device is
\* in it, and otherwise publishes the error and raises DEVICE_NOT_FOUND.
\* (main and secondary are the lists the vendor sent to this call.)
ReturnDevices(c, call, devices, main, secondary) ==
    IF call.op = "get_devices"
    THEN /\ device_calls' = [device_calls EXCEPT ![c] = NoDeviceCall]
         /\ device_last' = [Result(call, "devices", None, 0) EXCEPT
                                !.devices = devices, !.main = main,
                                !.secondary = secondary]
         /\ UNCHANGED lock_statuses
    ELSE IF \E i \in 1..Len(devices) : devices[i].id = call.device_id
    THEN /\ device_calls' = [device_calls EXCEPT ![c] =
                [call EXCEPT !.pc = "post", !.main = <<>>]]
         /\ UNCHANGED <<device_last, lock_statuses>>
    ELSE /\ device_calls' = [device_calls EXCEPT ![c] = NoDeviceCall]
         /\ lock_statuses' = Append(lock_statuses,
                [device_id |-> call.device_id, is_locked |-> TRUE,
                 timestamp |-> now, error |-> "Device not found"])
         /\ device_last' = Result(call, "DeviceControlError", "DEVICE_NOT_FOUND", 0)

\* A call enters get_devices: the cached list is returned, or the request for
\* the main list is sent and the call awaits the vendor.
StartCallBody(c, op, device_id, force_refresh) ==
    LET call == [pc |-> "get_main", op |-> op, device_id |-> device_id,
                 gets |-> 0, force_refresh |-> force_refresh, main |-> <<>>]
    IN
    /\ device_calls[c].pc = "idle"
    /\ device_calls_made' = device_calls_made + 1
    /\ tasks' = [i \in 1..Len(tasks) |->
                    IF /\ op = "open_door"
                       /\ tasks[i].device_id = device_id
                       /\ tasks[i].state = "sleeping"
                    THEN [tasks[i] EXCEPT !.reopened = TRUE]
                    ELSE tasks[i]]
    /\ IF cache_hit(force_refresh)
       THEN ReturnDevices(c, call, devices_cache, <<>>, <<>>)
       ELSE /\ device_calls' = [device_calls EXCEPT ![c] = [call EXCEPT !.gets = 1]]
            /\ UNCHANGED <<device_last, lock_statuses>>
    /\ UNCHANGED <<devices_cache, cache_timestamp, lock_reset_tasks,
                   device_status, last_successful_connection, device_statuses,
                   monitoring_enabled, monitor_wake>>
    /\ UNCHANGED lifeVars

StartCall(c, op, device_id, force_refresh) ==
    /\ StartCallBody(c, op, device_id, force_refresh)
    /\ UNCHANGED <<transportVars, autoOpenVars, eventVars, clockVars, authVars>>

\* DeviceController.open_door, up to its first suspension
open_door(c, device_id) == StartCall(c, "open_door", device_id, FALSE)

\* DeviceController.get_devices, up to its first suspension
get_devices(c, force_refresh) == StartCall(c, "get_devices", None, force_refresh)

\* The vendor answers a list request: get_devices raises DeviceControlError
\* (which open_door passes on), asks for the secondary list when the main
\* one is empty, or stores the list, updates the status of its devices and
\* returns it.
ListReplyBody(c, reply) ==
    LET call == device_calls[c]
        devices == devices_of(reply.items)
        st == update_from(Tracked, devices, 1)
    IN
    /\ call.pc \in {"get_main", "get_secondary"}
    /\ CASE reply.kind = "IS74ApiError" ->
            /\ device_calls' = [device_calls EXCEPT ![c] = NoDeviceCall]
            /\ device_last' = Result(call, "DeviceControlError", None, 0)
            /\ UNCHANGED <<devices_cache, cache_timestamp, device_status,
                           last_successful_connection, device_statuses,
                           lock_statuses>>
         [] /\ reply.kind = "list"
            /\ call.pc = "get_main"
            /\ main_is_empty(reply.items) ->
            /\ device_calls' = [device_calls EXCEPT ![c] =
                   [call EXCEPT !.pc = "get_secondary", !.gets = @ + 1,
                                !.main = reply.items]]
            /\ UNCHANGED <<devices_cache, cache_timestamp, device_status,
                           last_successful_connection, device_statuses,
                           lock_statuses, device_last>>
         [] OTHER ->
            /\ devices_cache' = devices
            /\ cache_timestamp' = now
            /\ device_status' = st.device_status
            /\ last_successful_connection' = st.last
            /\ device_statuses' = st.published
            /\ IF call.pc = "get_main"
               THEN ReturnDevices(c, call, devices, reply.items, <<>>)
               ELSE ReturnDevices(c, call, devices, call.main, reply.items)
    /\ UNCHANGED <<lock_reset_tasks, tasks, monitoring_enabled, monitor_wake,
                   device_calls_made>>
    /\ UNCHANGED lifeVars

ListReply(c, reply) ==
    /\ ListReplyBody(c, reply)
    /\ UNCHANGED <<transportVars, autoOpenVars, eventVars, clockVars, authVars>>

\* The step, when it ends a get_devices call with the list, is noted for the
\* devices the list holds with status online.
watched ==
    /\ listed_online_at' =
          IF /\ device_last' # device_last
             /\ device_last'.op = "get_devices"
             /\ device_last'.outcome = "devices"
          THEN [d \in DeviceIds |->
                   IF \E i \in 1..Len(device_last'.devices) :
                         /\ device_last'.devices[i].id = d
                         /\ is_online(device_last'.devices[i])
                   THEN now
                   ELSE listed_online_at[d]]
          ELSE listed_online_at
    /\ UNCHANGED <<transportVars, autoOpenVars, eventVars, now, advances, authVars>>

\* get_devices and the vendor's answer to it, watched.
watched_get_devices(c, force_refresh) ==
    StartCallBody(c, "get_devices", None, force_refresh) /\ watched

WatchedListReply(c, reply) == ListReplyBody(c, reply) /\ watched

\* if device_id in self._lock_reset_tasks: self._lock_reset_tasks[device_id]
\* .cancel() (cancelling a task that is done changes nothing)
\* The cancellation, had it taken every task in the tracking.
cancel_every(device_id) ==
    [i \in 1..Len(tasks) |->
        IF tasks[i].state = "sleeping"
        THEN [tasks[i] EXCEPT !.state = "cancelled"]
        ELSE tasks[i]]

cancel_nothing(device_id) == tasks

cancel_existing(device_id) ==
    IF lock_reset_tasks[device_id] # Nil
    THEN [tasks EXCEPT ![lock_reset_tasks[device_id]].state =
             IF @ = "sleeping" THEN "cancelled" ELSE @]
    ELSE tasks

\* error_code=str(e.status_code) if e.status_code else "API_ERROR"
error_code_of(reply) ==
    IF reply.kind = "IS74ApiError"
    THEN IF reply.status_code # Nil THEN ToString(reply.status_code)
         ELSE "API_ERROR"
    ELSE "UNEXPECTED_ERROR"

\* The vendor answers the relay-open request and open_door runs to its end.
PostReplyBody(c, reply) ==
    LET call == device_calls[c]
        d == call.device_id
    IN
    /\ call.pc = "post"
    /\ device_calls' = [device_calls EXCEPT ![c] = NoDeviceCall]
    /\ IF reply.kind = "ok"
       THEN /\ lock_statuses' = Append(lock_statuses,
                   [device_id |-> d, is_locked |-> FALSE, timestamp |-> now,
                    error |-> None])
            /\ tasks' = Append(cancel_existing(d),
                   [device_id |-> d,
                    wake_at |-> now + Seconds(LOCK_RESET_DELAY_SECONDS),
                    state |-> "sleeping", reopened |-> FALSE,
                    shutdown |-> FALSE])
            /\ lock_reset_tasks' = [lock_reset_tasks EXCEPT ![d] = Len(tasks) + 1]
            /\ device_last' = Result(call, "True", None, 1)
       ELSE /\ lock_statuses' = Append(lock_statuses,
                   [device_id |-> d, is_locked |-> TRUE, timestamp |-> now,
                    error |-> "Failed to open door"])
            /\ device_last' = Result(call, "DeviceControlError",
                                     error_code_of(reply), 1)
            /\ UNCHANGED <<tasks, lock_reset_tasks>>
    /\ UNCHANGED <<devices_cache, cache_timestamp, device_status,
                   last_successful_connection, device_statuses,
                   monitoring_enabled, monitor_wake, device_calls_made>>
    /\ UNCHANGED lifeVars

PostReply(c, reply) ==
    /\ PostReplyBody(c, reply)
    /\ UNCHANGED <<transportVars, autoOpenVars, eventVars, clockVars, authVars>>

\* endpoint = f"/domofon/relays/{device.relay_id}/open"
RelayOpenEndpoint == "/domofon/relays/{relay_id}/open"

\* await self.api_client.post(endpoint, params={"from": "app"}, json={}):
\* the first attempt of the request goes to the client
SendRelayOpen ==
    [TrIdle EXCEPT !.pc = "attempt", !.method = "POST",
                   !.endpoint = RelayOpenEndpoint, !.attempts = 1]

\* IS74ApiClient.post: what open_door gets for the outcome r of _request
\* (return response.json(), which raises when the body is no JSON)
post_reply(r) ==
    IF r.kind = "raise"
    THEN [kind |-> "IS74ApiError", status_code |-> r.status_code]
    ELSE IF r.body = "json" THEN [kind |-> "ok", status_code |-> Nil]
    ELSE [kind |-> "Exception", status_code |-> Nil]

\* open_door over the transport: when the call comes to its relay-open
\* request, the request's first attempt is sent.
relay_open_door(c, device_id) ==
    /\ StartCallBody(c, "open_door", device_id, FALSE)
    /\ tr' = IF device_calls'[c].pc = "post" THEN SendRelayOpen ELSE tr
    /\ UNCHANGED <<logVars, autoOpenVars, eventVars, clockVars, authVars>>

RelayListReply(c, reply) ==
    /\ ListReplyBody(c, reply)
    /\ tr' = IF device_calls'[c].pc = "post" THEN SendRelayOpen ELSE tr
    /\ UNCHANGED <<logVars, autoOpenVars, eventVars, clockVars, authVars>>

\* The client answers the attempt of the relay-open request in flight:
\* tenacity starts the next attempt, or the outcome goes to open_door, which
\* runs to its end.
RelayAttemptEnds(c, o) ==
    /\ tr.pc = "attempt"
    /\ device_calls[c].pc = "post"
    /\ LET r == request_body(o)
           replies == Append(tr.replies, o)
       IN IF retry_if_exception_type(r) /\ tr.attempts < STOP_AFTER_ATTEMPT
          THEN /\ tr' = [tr EXCEPT !.replies = replies, !.attempts = @ + 1]
               /\ UNCHANGED deviceVars
          ELSE /\ tr' = [tr EXCEPT !.replies = replies, !.pc = "done",
                                   !.result = r]
               /\ PostReplyBody(c, post_reply(r))
    /\ UNCHANGED <<logVars, autoOpenVars, eventVars, clockVars, authVars>>

\* The same, had the task slept longer than the delay.
reset_lock_status_late(i) ==
    /\ tasks[i].state = "sleeping"
    /\ tasks[i].wake_at < now
    /\ lock_statuses' = Append(lock_statuses,
           [device_id |-> tasks[i].device_id, is_locked |-> TRUE,
            timestamp |-> now, error |-> None])
    /\ tasks' = [tasks EXCEPT ![i].state = "done"]
    /\ lock_reset_tasks' = [lock_reset_tasks EXCEPT ![tasks[i].device_id] = Nil]
    /\ UNCHANGED <<devices_cache, cache_timestamp, device_status,
                   last_successful_connection, device_statuses,
                   monitoring_enabled, monitor_wake, device_calls, device_last,
                   device_calls_made>>
    /\ UNCHANGED <<transportVars, autoOpenVars, eventVars, clockVars, authVars>>
    /\ UNCHANGED lifeVars

\* DeviceController._reset_lock_status: the sleep of task i is over, "locked"
\* is published and the device's entry is removed from the tracking.
reset_lock_status(i) ==
    /\ tasks[i].state = "sleeping"
    /\ tasks[i].wake_at <= now
    /\ lock_statuses' = Append(lock_statuses,
           [device_id |-> tasks[i].device_id, is_locked |-> TRUE,
            timestamp |-> now, error |-> None])
    /\ tasks' = [tasks EXCEPT ![i].state = "done"]
    /\ lock_reset_tasks' = [lock_reset_tasks EXCEPT ![tasks[i].device_id] = Nil]
    /\ UNCHANGED <<devices_cache, cache_timestamp, device_status,
                   last_successful_connection, device_statuses,
                   monitoring_enabled, monitor_wake, device_calls, device_last,
                   device_calls_made>>
    /\ UNCHANGED <<transportVars, autoOpenVars, eventVars, clockVars, authVars>>
    /\ UNCHANGED lifeVars

\* if time_since_last_seen > timeout_threshold
connection_lost_at_threshold(last_seen) ==
    now - last_seen >= Seconds(CONNECTION_TIMEOUT_SECONDS)

connection_lost(last_seen) ==
    now - last_seen > Seconds(CONNECTION_TIMEOUT_SECONDS)

\* for device_id, last_seen in list(self._last_successful_connection.items()):
\* ... (the loop from the i-th device of the dict on)
RECURSIVE check_from(_, _)
check_from(st, i) ==
    IF i > Len(DeviceOrder) THEN st
    ELSE LET device_id == DeviceOrder[i]
             last_seen == last_successful_connection[device_id]
         IN IF /\ last_seen # Nil
               /\ connection_lost(last_seen)
               /\ st.device_status[device_id] = "online"
            THEN check_from(update_device_status(st, device_id, FALSE), i + 1)
            ELSE check_from(st, i + 1)

\* DeviceController.start_monitoring: the task is created and makes its first
\* pass once it is scheduled
start_monitoring ==
    /\ IF monitoring_enabled
       THEN UNCHANGED <<monitoring_enabled, monitor_wake>>
       ELSE monitoring_enabled' = TRUE /\ monitor_wake' = now
    /\ UNCHANGED <<devices_cache, cache_timestamp, lock_reset_tasks, tasks,
                   lock_statuses, device_status, last_successful_connection,
                   device_statuses, device_calls, device_last, device_calls_made>>
    /\ UNCHANGED <<transportVars, autoOpenVars, eventVars, clockVars, authVars>>
    /\ UNCHANGED lifeVars

\* DeviceController.stop_monitoring
stop_monitoring ==
    /\ IF ~monitoring_enabled
       THEN UNCHANGED <<monitoring_enabled, monitor_wake>>
       ELSE monitoring_enabled' = FALSE /\ monitor_wake' = Nil
    /\ UNCHANGED <<devices_cache, cache_timestamp, lock_reset_tasks, tasks,
                   lock_statuses, device_status, last_successful_connection,
                   device_statuses, device_calls, device_last, device_calls_made>>
    /\ UNCHANGED <<transportVars, autoOpenVars, eventVars, clockVars, authVars>>
    /\ UNCHANGED lifeVars

\* DeviceController._check_device_connections: one pass of the loop, up to
\* the sleep that ends it
check_device_connections ==
    LET st == check_from(Tracked, 1)
    IN
    /\ monitoring_enabled
    /\ monitor_wake <= now
    /\ device_status' = st.device_status
    /\ last_successful_connection' = st.last
    /\ device_statuses' = st.published
    /\ monitor_wake' = now + Seconds(STATUS_CHECK_INTERVAL_SECONDS)
    /\ UNCHANGED <<devices_cache, cache_timestamp, lock_reset_tasks, tasks,
                   lock_statuses, monitoring_enabled, device_calls, device_last,
                   device_calls_made>>
    /\ UNCHANGED <<transportVars, autoOpenVars, eventVars, clockVars, authVars>>
    /\ UNCHANGED lifeVars

\* When the sleeping tasks (the lock resets, the monitor) wake.
Wakes ==
    {tasks[i].wake_at : i \in {j \in 1..Len(tasks) : tasks[j].state = "sleeping"}}
    \cup (IF monitoring_enabled THEN {monitor_wake} ELSE {})

\* Time passes: by d, or up to the first wake-up before that. The event loop
\* runs a task whose sleep is over before the clock moves on.
DeviceAdvance(d) ==
    /\ \A w \in Wakes : now < w
    /\ now' = IF \E w \in Wakes : w < now + d
              THEN CHOOSE w \in Wakes : \A v \in Wakes : w <= v
              ELSE now + d
    /\ advances' = advances + 1
    /\ UNCHANGED listed_online_at
    /\ UNCHANGED <<transportVars, deviceVars, autoOpenVars, eventVars, authVars>>

\* DeviceController.cancel_all_reset_tasks (the shutdown, as close runs it):
\* every task still in the tracking is cancelled and the tracking cleared.
cancel_all_reset_tasks ==
    /\ tasks' = [i \in 1..Len(tasks) |->
                    IF /\ lock_reset_tasks[tasks[i].device_id] = i
                       /\ tasks[i].state = "sleeping"
                    THEN [tasks[i] EXCEPT !.state = "cancelled", !.shutdown = TRUE]
                    ELSE tasks[i]]
    /\ lock_reset_tasks' = [d \in DeviceIds |-> Nil]
    /\ UNCHANGED <<devices_cache, cache_timestamp, lock_statuses, device_status,
                   last_successful_connection, device_statuses,
                   monitoring_enabled, monitor_wake, device_calls, device_last,
                   device_calls_made>>
    /\ UNCHANGED <<transportVars, autoOpenVars, eventVars, clockVars, authVars>>
    /\ UNCHANGED lifeVars

\* app_state.fcm_task = asyncio.create_task(start_push_service()), at
\* startup or by POST /fcm/start, unless the task runs already
start_push_service ==
    /\ fcm_task' = "running"
    /\ UNCHANGED <<devices_cache, cache_timestamp, lock_reset_tasks, tasks,
                   lock_statuses, device_status, last_successful_connection,
                   device_statuses, monitoring_enabled, monitor_wake,
                   device_calls, device_last, device_calls_made, closed>>
    /\ UNCHANGED hostVars
    /\ UNCHANGED <<transportVars, autoOpenVars, eventVars, clockVars, authVars>>

\* The shutdown of lifespan: the push listener's task is cancelled and
\* awaited, then DeviceController.close stops the monitor and cancels the
\* lock-reset tasks in the tracking.
lifespan_shutdown ==
    /\ fcm_task' = IF fcm_task = "running" THEN "cancelled" ELSE fcm_task
    /\ monitoring_enabled' = FALSE
    /\ monitor_wake' = Nil
    /\ tasks' = [i \in 1..Len(tasks) |->
                    IF /\ lock_reset_tasks[tasks[i].device_id] = i
                       /\ tasks[i].state = "sleeping"
                    THEN [tasks[i] EXCEPT !.state = "cancelled", !.shutdown = TRUE]
                    ELSE tasks[i]]
    /\ lock_reset_tasks' = [d \in DeviceIds |-> Nil]
    /\ closed' = TRUE
    /\ UNCHANGED <<devices_cache, cache_timestamp, lock_statuses, device_status,
                   last_successful_connection, device_statuses, device_calls,
                   device_last, device_calls_made>>
    /\ UNCHANGED hostVars
    /\ UNCHANGED <<transportVars, autoOpenVars, eventVars, clockVars, authVars>>

\* await asyncio.sleep(self.LOCK_RESET_DELAY_SECONDS) comes to its end: the
\* clock reaches the first wake-up of the sleeping tasks.
SleepEnds ==
    /\ Wakes # {}
    /\ \A w \in Wakes : now < w
    /\ now' = CHOOSE w \in Wakes : \A v \in Wakes : w <= v
    /\ UNCHANGED <<advances, listed_online_at>>
    /\ UNCHANGED <<transportVars, deviceVars, autoOpenVars, eventVars, authVars>>

\* The push payloads are followed up to MaxPushes.
MaxPushes == 2

\* The event stream is followed while MaxStreamEvents events are logged.
MaxStreamEvents == 11
\* events = await event_manager.get_history(limit=10)
STREAM_HISTORY_LIMIT == 10

\* GET /events/stream (stream_events): HTTP 401 without a session; otherwise
\* the response starts, event_generator yields the 'connected' message and
\* enters its loop with last_event_count = 0.
stream_events ==
    /\ stream.pc = "none"
    /\ IF is_authenticated(tokens)
       THEN stream' = [pc |-> "open", last_event_count |-> 0,
                       opened_at |-> Len(logged), emitted |-> <<>>]
       ELSE UNCHANGED stream
    /\ UNCHANGED <<auto_open_enabled, push_received>>
    /\ UNCHANGED <<devices_cache, cache_timestamp, lock_reset_tasks, tasks,
                   lock_statuses, device_status, last_successful_connection,
                   device_statuses, monitoring_enabled, monitor_wake,
                   device_calls, device_last, device_calls_made, closed,
                   fcm_task>>
    /\ UNCHANGED <<transportVars, autoOpenVars, eventVars, clockVars, authVars>>

\* for event in events[:len(events) - last_event_count]: yield ...
new_events(events, last_event_count) ==
    slice_first(events, Len(events) - last_event_count)

\* One round of event_generator's loop, between two sleeps of a second: the
\* 10 most recent events are read, and when they are more than were counted
\* in the round before, the first of them are yielded and the count kept.
event_generator ==
    LET events == most_recent(history, STREAM_HISTORY_LIMIT)
        yielded == new_events(events, stream.last_event_count)
    IN
    /\ stream.pc = "open"
    /\ stream' = IF Len(events) > stream.last_event_count
                 THEN [stream EXCEPT
                          !.emitted = @ \o [i \in 1..Len(yielded) |-> yielded[i].id],
                          !.last_event_count = Len(events)]
                 ELSE stream
    /\ UNCHANGED <<auto_open_enabled, push_received>>
    /\ UNCHANGED <<devices_cache, cache_timestamp, lock_reset_tasks, tasks,
                   lock_statuses, device_status, last_successful_connection,
                   device_statuses, monitoring_enabled, monitor_wake,
                   device_calls, device_last, device_calls_made, closed,
                   fcm_task>>
    /\ UNCHANGED <<transportVars, autoOpenVars, eventVars, clockVars, authVars>>

\* POST /auto-open (set_auto_open_status): the flag of the module api is
\* set and returned; the ConfigManager is not among what the route uses.
set_auto_open_status(enabled) ==
    /\ auto_open_enabled' = enabled
    /\ UNCHANGED <<push_received, stream>>
    /\ UNCHANGED <<devices_cache, cache_timestamp, lock_reset_tasks, tasks,
                   lock_statuses, device_status, last_successful_connection,
                   device_statuses, monitoring_enabled, monitor_wake,
                   device_calls, device_last, device_calls_made, closed,
                   fcm_task>>
    /\ UNCHANGED <<transportVars, autoOpenVars, eventVars, clockVars, authVars>>

\* callhook.on_notification, the callback the push client is given: the
\* payload of an incoming call at device_id is written to the log.
on_notification(device_id) ==
    /\ fcm_task = "running"
    /\ push_received' = push_received + 1
    /\ UNCHANGED <<auto_open_enabled, stream>>
    /\ UNCHANGED <<devices_cache, cache_timestamp, lock_reset_tasks, tasks,
                   lock_statuses, device_status, last_successful_connection,
                   device_statuses, monitoring_enabled, monitor_wake,
                   device_calls, device_last, device_calls_made, closed,
                   fcm_task>>
    /\ UNCHANGED <<transportVars, autoOpenVars, eventVars, clockVars, authVars>>

(***************************************************************************)
(* AutoOpenManager.handle_call_event: the decision, the open_door it       *)
(* awaits, and the event it logs once open_door has returned or raised.    *)
(***************************************************************************)

\* The call events are followed up to MaxCallEvents, at instants inside and
\* outside the window of the one schedule the configuration is given.
MaxCallEvents == 2
CallEventTimes == {0, 2}
CallSchedules == {[days |-> {0}, time_start |-> 0, time_end |-> 1]}

NoCallEvent ==
    [call_id |-> Nil, device_id |-> None, timestamp |-> Nil, result |-> FALSE]

\* datetime.isoformat(): the date and the time of day, "T" between them
isoformat(dt) == <<dt \div DayLength, "T", time_of(dt)>>

\* The metadata of the auto_open event, had it left the call out.
auto_open_metadata_without_call(call_event) ==
    [NoMetadata EXCEPT !.auto_opened = TRUE]

\* metadata={"call_id": call_event.call_id, "call_timestamp":
\* call_event.timestamp.isoformat(), "snapshot_url": ..., "auto_opened": True}
auto_open_metadata(call_event) ==
    [NoMetadata EXCEPT !.call_id = call_event.call_id,
                       !.call_timestamp = isoformat(call_event.timestamp),
                       !.auto_opened = TRUE]

\* The metadata of the error event, had it left the call out.
error_metadata_without_call(call_event, e) ==
    [NoMetadata EXCEPT !.error = "auto_open_failed",
                       !.error_code = e.error_code]

\* metadata={"call_id": call_event.call_id, "error": "auto_open_failed",
\* "error_message": e.message, "error_code": e.error_code}
error_metadata(call_event, e) ==
    [NoMetadata EXCEPT !.call_id = call_event.call_id,
                       !.error = "auto_open_failed",
                       !.error_code = e.error_code]

\* The test of handle_call_event, had it let every call through.
declines_never(config, timestamp) == FALSE

\* if not self.should_auto_open(call_event.timestamp): return False
declines(config, timestamp) == ~should_auto_open(config, timestamp)

\* handle_call_event after its open_door: the auto_open event is logged and
\* True returned when open_door returned, the error event logged and False
\* returned when it raised DeviceControlError (e: what open_door gave).
after_open_door(c, call_event, e) ==
    LET opened == e.outcome = "True"
        event == IF opened
                 THEN new_event("auto_open", call_event.device_id,
                                auto_open_metadata(call_event))
                 ELSE new_event("error", call_event.device_id,
                                error_metadata(call_event, e))
    IN /\ history' = trim(Append(history, event))
       /\ logged' = Append(logged, event)
       /\ notifications' = create_task(event)
       /\ UNCHANGED ha_callbacks
       /\ handled_last' = [call_event EXCEPT !.result = opened]
       /\ call_events' = [call_events EXCEPT ![c] = NoCallEvent]

\* AutoOpenManager.handle_call_event, up to its first suspension: False is
\* returned when should_auto_open is false, and open_door called otherwise.
handle_call_event(c, device_id, timestamp) ==
    LET call_event == [call_id |-> calls_received + 1, device_id |-> device_id,
                       timestamp |-> timestamp, result |-> FALSE]
    IN
    /\ device_calls[c].pc = "idle"
    /\ call_events[c] = NoCallEvent
    /\ calls_received' = calls_received + 1
    /\ IF declines(auto_open_config, timestamp)
       THEN /\ handled_last' = call_event
            /\ UNCHANGED <<deviceVars, history, logged, notifyVars, call_events>>
       ELSE /\ StartCallBody(c, "open_door", device_id, FALSE)
            /\ IF device_calls'[c].pc = "idle"
               THEN after_open_door(c, call_event, device_last')
               ELSE /\ call_events' = [call_events EXCEPT ![c] = call_event]
                    /\ UNCHANGED <<history, logged, notifyVars, handled_last>>
    /\ UNCHANGED <<transportVars, auto_open_config, auto_open_last, query,
                   clockVars, authVars>>

\* The open_door a caller awaits has gone a step: handle_call_event goes on
\* when it has returned or raised.
resume(c) ==
    /\ IF call_events[c] # NoCallEvent /\ device_calls'[c].pc = "idle"
       THEN after_open_door(c, call_events[c], device_last')
       ELSE UNCHANGED <<history, logged, notifyVars, handled_last, call_events>>
    /\ UNCHANGED <<transportVars, auto_open_config, auto_open_last, query,
                   calls_received, clockVars, authVars>>

\* The vendor answers a list request of the open_door handle_call_event
\* awaits.
CallListReply(c, reply) == ListReplyBody(c, reply) /\ resume(c)

\* The vendor answers its relay-open request.
CallPostReply(c, reply) == PostReplyBody(c, reply) /\ resume(c)

(***************************************************************************)
(* Logging: the masking of the transport (_mask_sensitive_data), the log   *)
(* statements of request_auth_code and get_access_token, and the filter    *)
(* of the handlers (SensitiveDataFilter). A text is a sequence of pieces:  *)
(* words, '"key": "value"' (json), 'key: value' (plain), 'Bearer value'.   *)
(***************************************************************************)

MASKED == "***MASKED***"
Phones == {"9000000001", "9000000002"}
AuthIds == {"authid-1", "authid-2"}
AccessTokens == {"token-1"}
Secrets == Phones \cup AuthIds \cup AccessTokens

\* str.lower() of the keys the texts carry
lower(key) ==
    CASE key = "TOKEN" -> "token"
      [] key = "authId" -> "authid"
      [] key = "deviceId" -> "deviceid"
      [] key = "Received authId" -> "received authid"
      [] OTHER -> key

Words(w) == [form |-> "words", key |-> None, value |-> w]
Json(key, value) == [form |-> "json", key |-> key, value |-> value]
Plain(key, value) == [form |-> "plain", key |-> key, value |-> value]

\* IS74ApiClient.SENSITIVE_PATTERNS: '"<key>"\s*:\s*"[^"]*"' for these keys,
\* as they are written, and 'Bearer\s+...'
CLIENT_SENSITIVE_PATTERNS ==
    [form : {"json"}, ignorecase : {FALSE},
     key : {"TOKEN", "PASSWORD", "password", "phone", "code", "access_token",
            "firebase_token", "authid"}]
    \cup {[form |-> "bearer", ignorecase |-> FALSE, key |-> "Bearer"]}

\* logging_config.SENSITIVE_PATTERNS: the same shape with re.IGNORECASE
SENSITIVE_PATTERNS ==
    [form : {"json"}, ignorecase : {TRUE},
     key : {"token", "access_token", "refresh_token", "firebase_token",
            "fcm_token", "authid", "appInstanceIdToken", "appInstanceId",
            "password", "pass", "phone", "code", "sms_code", "api_key",
            "apiKey"}]
    \cup {[form |-> "bearer", ignorecase |-> FALSE, key |-> "Bearer"]}

\* pattern.search: the piece has the pattern's shape and its key
matches(pattern, piece) ==
    /\ piece.form = pattern.form
    /\ IF pattern.ignorecase THEN lower(piece.key) = lower(pattern.key)
       ELSE piece.key = pattern.key

\* for pattern, replacement in patterns: masked = pattern.sub(replacement,
\* masked)
mask_sensitive_data(patterns, text) ==
    [i \in 1..Len(text) |->
        IF \E pattern \in patterns : matches(pattern, text[i])
        THEN [text[i] EXCEPT !.value = MASKED]
        ELSE text[i]]

\* The log is followed until MaxLogLines lines have been emitted.
MaxLogLines == 4
LevelNames == {"DEBUG", "INFO", "WARNING"}
levelno == [DEBUG |-> 10, INFO |-> 20, WARNING |-> 30, ERROR |-> 40]
\* logger.setLevel(logging.WARNING) of the modules; no handler is set up
DefaultLogConfig ==
    [global |-> "WARNING", auth_manager |-> "WARNING", api_client |-> "WARNING"]

\* logging_config.setup_logging: the handlers get the global level, and the
\* loggers of the modules named in the configuration get theirs
setup_logging(global_level, modules) ==
    /\ log_config' =
          [global |-> global_level,
           auth_manager |-> IF modules.auth_manager # None
                            THEN modules.auth_manager
                            ELSE log_config.auth_manager,
           api_client |-> IF modules.api_client # None
                          THEN modules.api_client
                          ELSE log_config.api_client]
    /\ UNCHANGED <<tr, log_sink>>
    /\ UNCHANGED <<deviceVars, autoOpenVars, eventVars, clockVars, authVars>>

\* Logger.isEnabledFor of the module's logger, and the level of the handlers
is_emitted(name, level) ==
    /\ levelno[level] >= levelno[log_config[name]]
    /\ levelno[level] >= levelno[log_config.global]

\* SensitiveDataFilter.filter: the message is masked; what the record
\* carries in extra is left as it is
filter(record) ==
    [record EXCEPT !.msg = mask_sensitive_data(SENSITIVE_PATTERNS, record.msg)]

\* logger.<level>(msg, extra={"body": body}) on the sink
emit(sink, name, level, msg, body) ==
    IF is_emitted(name, level)
    THEN Append(sink, filter([name |-> name, level |-> level, msg |-> msg,
                              body |-> body]))
    ELSE sink

\* IS74ApiClient._log_request
log_request(sink, endpoint, body) ==
    emit(sink, "api_client", "DEBUG", <<Words("API Request: POST"), Words(endpoint)>>,
         mask_sensitive_data(CLIENT_SENSITIVE_PATTERNS, body))

\* IS74ApiClient._log_response
log_response(sink, body) ==
    emit(sink, "api_client", "DEBUG", <<Words("API Response: 200")>>,
         mask_sensitive_data(CLIENT_SENSITIVE_PATTERNS, body))

\* What a successful AuthManager.request_auth_code logs, the transport's
\* lines included: the request, the vendor's reply with the authId, and
\* "Received authId: {self._auth_id}".
request_auth_code_logs(phone, authid) ==
    LET requesting == emit(log_sink, "auth_manager", "INFO",
                           <<Words("Requesting auth code for phone with device_id"),
                             Words("device")>>, <<>>)
        request == log_request(requesting, "/mobile/auth/get-confirm",
                               <<Json("deviceId", "device"), Json("phone", phone)>>)
        response == log_response(request, <<Json("authId", authid)>>)
        received == emit(response, "auth_manager", "INFO",
                         <<Plain("Received authId", authid)>>, <<>>)
    IN
    /\ log_sink' = emit(received, "auth_manager", "INFO",
                        <<Words("Auth code requested successfully")>>, <<>>)
    /\ UNCHANGED <<tr, log_config>>
    /\ UNCHANGED <<deviceVars, autoOpenVars, eventVars, clockVars, authVars>>

\* What a successful AuthManager.get_access_token logs: the request, the
\* vendor's reply with the TOKEN, and "Access token obtained".
get_access_token_logs(authid, access_token) ==
    LET getting == emit(log_sink, "auth_manager", "INFO",
                        <<Words("Requesting access token")>>, <<>>)
        request == log_request(getting, "/mobile/auth/get-token",
                               <<Json("authId", authid)>>)
        response == log_response(request, <<Json("TOKEN", access_token)>>)
    IN
    /\ log_sink' = emit(response, "auth_manager", "INFO",
                        <<Words("Access token obtained, expires at")>>, <<>>)
    /\ UNCHANGED <<tr, log_config>>
    /\ UNCHANGED <<deviceVars, autoOpenVars, eventVars, clockVars, authVars>>

(***************************************************************************)
(* Specifications                                                          *)
(***************************************************************************)

vars == <<transportVars, deviceVars, autoOpenVars, eventVars, clockVars, authVars>>

\* The state after construction.
Init ==
    /\ tr = TrIdle
    /\ auto_open_config = [enabled |-> FALSE, schedules |-> <<>>]
    /\ auto_open_last = [call_time |-> Nil, result |-> FALSE]
    /\ call_events = [c \in DeviceCallers |-> NoCallEvent]
    /\ handled_last = NoCallEvent
    /\ calls_received = 0
    /\ history = <<>>
    /\ logged = <<>>
    /\ ha_callbacks = <<>>
    /\ notifications = <<>>
    /\ query = [op |-> None, arg |-> None, limit |-> 0, events |-> <<>>]
    /\ now = 0
    /\ advances = 0
    /\ failed_attempts = 0
    /\ lockout_until = Nil
    /\ auth_id = None
    /\ tokens = NoTokens
    /\ auth_header = None
    /\ saved_tokens = NoTokens
    /\ auth_calls = [c \in AuthCallers |-> NoCall]
    /\ auth_last = NoAuthResult
    /\ streak = 0
    /\ third_failure_at = Nil
    /\ devices_cache = <<>>
    /\ cache_timestamp = Nil
    /\ lock_reset_tasks = [d \in DeviceIds |-> Nil]
    /\ tasks = <<>>
    /\ lock_statuses = <<>>
    /\ device_status = [d \in DeviceIds |-> None]
    /\ last_successful_connection = [d \in DeviceIds |-> Nil]
    /\ device_statuses = <<>>
    /\ monitoring_enabled = FALSE
    /\ monitor_wake = Nil
    /\ device_calls = [c \in DeviceCallers |-> NoDeviceCall]
    /\ device_last = NoDeviceResult
    /\ device_calls_made = 0
    /\ closed = FALSE
    /\ fcm_task = "none"
    /\ listed_online_at = [d \in DeviceIds |-> Nil]
    /\ auto_open_enabled = FALSE
    /\ push_received = 0
    /\ stream = NoStream
    /\ log_config = DefaultLogConfig
    /\ log_sink = <<>>

NextTransport ==
    \/ \E m \in Methods, e \in Endpoints : TransportStart(m, e)
    \/ \E o \in ClientOutcomes : TransportAttemptEnds(o)

SpecTransport == Init /\ [][NextTransport]_vars

NextAutoOpen ==
    \/ \E enabled \in BOOLEAN : enable_auto_open(enabled)
    \/ \E schedule \in AutoOpenSchedules : add_auto_open_schedule(schedule)
    \/ clear_auto_open_schedules
    \/ \E call_time \in CallTimes : ShouldAutoOpen(call_time)

SpecAutoOpen == Init /\ [][NextAutoOpen]_vars

NextEventLog ==
    \E event_type \in EventTypes, device_id \in DeviceIds :
        /\ Len(logged) < MaxEvents
        /\ Len(logged) >= MaxVaried =>
              event_type = "call" /\ device_id = "d1"
        /\ log_event(event_type, device_id)

SpecEventLog == Init /\ [][NextEventLog]_vars

NextHistory ==
    \/ \E event_type \in EventTypes, device_id \in DeviceIds :
          /\ Len(logged) < MaxQueried
          /\ log_event(event_type, device_id)
    \/ \E limit \in 0..MaxLimit : get_history(limit)
    \/ \E event_type \in EventTypes, limit \in 0..MaxLimit :
          get_history_by_type(event_type, limit)
    \/ \E device_id \in DeviceIds, limit \in 0..MaxLimit :
          get_history_by_device(device_id, limit)

SpecHistory == Init /\ [][NextHistory]_vars

\* The event log with subscribers: up to MaxCallbacks callbacks register,
\* MaxNotified events are logged, and the notification tasks run.
NextNotify ==
    \/ \E callback \in Callbacks :
          /\ Len(ha_callbacks) < MaxCallbacks
          /\ register_home_assistant_callback(callback)
    \/ \E event_type \in EventTypes :
          /\ Len(logged) < MaxNotified
          /\ log_event(event_type, "d1")
    \/ \E i \in 1..Len(notifications) : notify_callbacks(i)

SpecNotify == Init /\ [][NextNotify]_vars

NextAuth ==
    \/ \E c \in AuthCallers, op \in AuthOps : AuthCallStart(c, op)
    \/ \E c \in AuthCallers, reply \in AuthReplies("get_access_token") \cup AuthReplies("verify_code"),
          access_end \in AccessEnds :
          /\ failed_attempts < MaxFailedAttempts
          /\ AuthCallEnd(c, reply, access_end)
    \/ \E d \in AdvanceSteps :
          /\ advances < MaxAdvances
          /\ AuthAdvance(d)

SpecAuth == Init /\ [][NextAuth]_vars

\* The token's refresh, beside the get_access_token calls that issue the
\* token and that fail.
NextRefresh ==
    \/ \E c \in AuthCallers : AuthCallStart(c, "get_access_token")
    \/ \E c \in AuthCallers : refresh_token_if_needed(c)
    \/ \E c \in AuthCallers, reply \in AuthReplies("get_access_token"),
          access_end \in AccessEnds :
          /\ failed_attempts < MaxFailedAttempts
          /\ AuthCallEnd(c, reply, access_end)
    \/ \E d \in AdvanceSteps :
          /\ advances < MaxAdvances
          /\ AuthAdvance(d)

SpecRefresh == Init /\ [][NextRefresh]_vars

\* login, beside the verify_code calls of other callers.
NextLogin ==
    \/ \E c \in AuthCallers : login(c)
    \/ \E c \in AuthCallers, reply \in AuthReplies("verify_code") :
          /\ failed_attempts < MaxFailedAttempts
          /\ LoginVerifyReply(c, reply)
    \/ \E c \in AuthCallers, reply \in AuthReplies("get_access_token"),
          access_end \in LoginAccessEnds :
          /\ failed_attempts < MaxFailedAttempts
          /\ LoginTokenReply(c, reply, access_end)
    \/ \E c \in AuthCallers : AuthCallStart(c, "verify_code")
    \/ \E c \in AuthCallers, reply \in AuthReplies("verify_code"),
          access_end \in AccessEnds :
          /\ failed_attempts < MaxFailedAttempts
          /\ AuthCallEnd(c, reply, access_end)
    \/ \E d \in AdvanceSteps :
          /\ advances < MaxAdvances
          /\ AuthAdvance(d)

SpecLogin == Init /\ [][NextLogin]_vars

NextLockReset ==
    \/ \E c \in DeviceCallers, device_id \in LockResetDevices :
          /\ device_calls_made < MaxDeviceCalls
          /\ open_door(c, device_id)
    \/ \E c \in DeviceCallers, reply \in LockResetListReplies : ListReply(c, reply)
    \/ \E c \in DeviceCallers, reply \in LockResetPostReplies : PostReply(c, reply)
    \/ \E i \in 1..Len(tasks) : reset_lock_status(i)
    \/ \E d \in LockResetSteps :
          /\ advances < MaxDeviceAdvances
          /\ DeviceAdvance(d)

SpecLockReset == Init /\ [][NextLockReset]_vars

\* The lock-reset tasks with the event loop running: a sleep comes to its
\* end and the task whose sleep is over is run (asyncio schedules every
\* ready task), with the shutdown among the operations.
NextLockResetLive ==
    \/ \E c \in DeviceCallers, device_id \in LockResetDevices :
          /\ device_calls_made < MaxListCalls
          /\ open_door(c, device_id)
    \/ \E c \in DeviceCallers, reply \in LockResetListReplies : ListReply(c, reply)
    \/ \E c \in DeviceCallers, reply \in LockResetPostReplies : PostReply(c, reply)
    \/ \E i \in 1..Len(tasks) : reset_lock_status(i)
    \/ cancel_all_reset_tasks
    \/ SleepEnds
    \/ \E d \in LockResetSteps :
          /\ advances < MaxLiveAdvances
          /\ DeviceAdvance(d)

\* The lock-reset tasks of two devices, with open_door calls that succeed
\* and fail, the timers firing and the tracking cleared.
NextTimers ==
    \/ \E c \in DeviceCallers, device_id \in DeviceIds :
          /\ device_calls_made < MaxTimerCalls
          /\ open_door(c, device_id)
    \/ \E c \in DeviceCallers, reply \in TimerListReplies : ListReply(c, reply)
    \/ \E c \in DeviceCallers, reply \in LockResetPostReplies : PostReply(c, reply)
    \/ \E i \in 1..Len(tasks) : reset_lock_status(i)
    \/ cancel_all_reset_tasks
    \/ SleepEnds
    \/ \E d \in TimerSteps :
          /\ advances < MaxTimerAdvances
          /\ DeviceAdvance(d)

SpecTimers == Init /\ [][NextTimers]_vars

SpecLockResetLive ==
    /\ Init
    /\ [][NextLockResetLive]_vars
    /\ WF_vars(SleepEnds)
    /\ WF_vars(\E i \in 1..Len(tasks) : reset_lock_status(i))

NextOpenDoor ==
    \/ \E c \in DeviceCallers, device_id \in DeviceIds :
          /\ device_calls_made < MaxListCalls
          /\ open_door(c, device_id)
    \/ \E c \in DeviceCallers, reply \in CacheListReplies : ListReply(c, reply)
    \/ \E c \in DeviceCallers, reply \in PostReplies : PostReply(c, reply)
    \/ \E i \in 1..Len(tasks) : reset_lock_status(i)
    \/ \E d \in CacheSteps :
          /\ advances < MaxCacheAdvances
          /\ DeviceAdvance(d)

SpecOpenDoor == Init /\ [][NextOpenDoor]_vars

\* open_door with its relay-open request going through the transport, one
\* call at a time.
NextRelay ==
    \/ \E c \in RelayCallers, device_id \in DeviceIds :
          /\ device_calls_made < MaxDeviceCalls
          /\ relay_open_door(c, device_id)
    \/ \E c \in RelayCallers, reply \in CacheListReplies : RelayListReply(c, reply)
    \/ \E c \in RelayCallers, o \in ClientOutcomes : RelayAttemptEnds(c, o)

SpecRelay == Init /\ [][NextRelay]_vars

NextMonitor ==
    \/ \E c \in DeviceCallers, force_refresh \in BOOLEAN :
          /\ device_calls_made < MaxListCalls
          /\ get_devices(c, force_refresh)
    \/ \E c \in DeviceCallers, reply \in ListReplies : ListReply(c, reply)
    \/ start_monitoring
    \/ stop_monitoring
    \/ check_device_connections
    \/ \E d \in MonitorSteps :
          /\ advances < MaxMonitorAdvances
          /\ DeviceAdvance(d)

SpecMonitor == Init /\ [][NextMonitor]_vars

\* The status of d1 over MaxEnumerations enumerations that the vendor
\* answers with d1 online or not online, or fails, beside the monitor.
NextOnline ==
    \/ \E c \in DeviceCallers, force_refresh \in BOOLEAN :
          /\ device_calls_made < MaxEnumerations
          /\ get_devices(c, force_refresh)
    \/ \E c \in DeviceCallers, reply \in OnlineListReplies : ListReply(c, reply)
    \/ start_monitoring
    \/ check_device_connections
    \/ \E d \in MonitorSteps :
          /\ advances < MaxOnlineAdvances
          /\ DeviceAdvance(d)

SpecOnline == Init /\ [][NextOnline]_vars

\* The shutdown, with open_door calls, the monitor and the push listener
\* started before it; nothing is started once the shutdown has returned,
\* and what was in flight runs on.
NextShutdown ==
    \/ \E c \in DeviceCallers, device_id \in LockResetDevices :
          /\ ~closed
          /\ device_calls_made < MaxListCalls
          /\ open_door(c, device_id)
    \/ \E c \in DeviceCallers, reply \in LockResetListReplies : ListReply(c, reply)
    \/ \E c \in DeviceCallers, reply \in LockResetPostReplies : PostReply(c, reply)
    \/ \E i \in 1..Len(tasks) : reset_lock_status(i)
    \/ ~closed /\ ~monitoring_enabled /\ start_monitoring
    \/ check_device_connections
    \/ ~closed /\ fcm_task # "running" /\ start_push_service
    \/ ~closed /\ lifespan_shutdown
    \/ now < Seconds(MaxShutdownSeconds) /\ SleepEnds

SpecShutdown == Init /\ [][NextShutdown]_vars

\* The incoming calls, with the configuration changed between and during
\* them.
NextCall ==
    \/ \E enabled \in BOOLEAN : enable_auto_open(enabled)
    \/ \E schedule \in CallSchedules : add_auto_open_schedule(schedule)
    \/ clear_auto_open_schedules
    \/ \E c \in DeviceCallers, device_id \in DeviceIds, timestamp \in CallEventTimes :
          /\ calls_received < MaxCallEvents
          /\ handle_call_event(c, device_id, timestamp)
    \/ \E c \in DeviceCallers, reply \in CacheListReplies : CallListReply(c, reply)
    \/ \E c \in DeviceCallers, reply \in PostReplies : CallPostReply(c, reply)

SpecCall == Init /\ [][NextCall]_vars

\* The push listener beside the host's operations: the auto-open route,
\* the payloads of incoming calls, and open_door called through the API.
NextPush ==
    \/ fcm_task # "running" /\ start_push_service
    \/ \E enabled \in BOOLEAN : set_auto_open_status(enabled)
    \/ \E device_id \in LockResetDevices :
          /\ push_received < MaxPushes
          /\ on_notification(device_id)
    \/ \E c \in DeviceCallers, device_id \in LockResetDevices :
          /\ device_calls_made < MaxListCalls
          /\ open_door(c, device_id)
    \/ \E c \in DeviceCallers, reply \in LockResetListReplies : ListReply(c, reply)
    \/ \E c \in DeviceCallers, reply \in LockResetPostReplies : PostReply(c, reply)
    \/ \E i \in 1..Len(tasks) : reset_lock_status(i)
    \/ SleepEnds

SpecPush == Init /\ [][NextPush]_vars

\* The event stream of a host that has logged in, beside the events logged.
NextStream ==
    \/ login("a")
    \/ LoginVerifyReply("a", "ok")
    \/ \E access_end \in AccessEnds : LoginTokenReply("a", "ok", access_end)
    \/ stream_events
    \/ event_generator
    \/ /\ Len(logged) < MaxStreamEvents
       /\ log_event("call", "d1")

SpecStream == Init /\ [][NextStream]_vars

\* The monitor beside enumerations that the vendor answers with d1 online,
\* each noted when it returns.
NextListing ==
    \/ \E c \in DeviceCallers, force_refresh \in BOOLEAN :
          /\ device_calls_made < MaxListCalls
          /\ watched_get_devices(c, force_refresh)
    \/ \E c \in DeviceCallers, reply \in OnlineListReplies : WatchedListReply(c, reply)
    \/ start_monitoring
    \/ check_device_connections
    \/ \E d \in MonitorSteps :
          /\ advances < MaxMonitorAdvances
          /\ DeviceAdvance(d)

SpecListing == Init /\ [][NextListing]_vars

\* The session over restarts of the application: login, the refresh of its
\* token, logout, and the tokens loaded from the token file.
NextStorage ==
    \/ \E c \in AuthCallers : login(c)
    \/ \E c \in AuthCallers, reply \in AuthReplies("verify_code") :
          /\ failed_attempts < MaxFailedAttempts
          /\ LoginVerifyReply(c, reply)
    \/ \E c \in AuthCallers, reply \in AuthReplies("get_access_token"),
          access_end \in LoginAccessEnds :
          /\ failed_attempts < MaxFailedAttempts
          /\ LoginTokenReply(c, reply, access_end)
    \/ \E c \in AuthCallers : refresh_token_if_needed(c)
    \/ \E c \in AuthCallers, reply \in AuthReplies("get_access_token"),
          access_end \in AccessEnds :
          /\ failed_attempts < MaxFailedAttempts
          /\ AuthCallEnd(c, reply, access_end)
    \/ clear_tokens
    \/ AuthManagerInit
    \/ \E d \in AdvanceSteps :
          /\ advances < MaxAdvances
          /\ AuthAdvance(d)

SpecStorage == Init /\ [][NextStorage]_vars

\* The session: login, the refresh of its token, and logout.
NextSession ==
    \/ \E c \in AuthCallers : login(c)
    \/ \E c \in AuthCallers, reply \in AuthReplies("verify_code") :
          /\ failed_attempts < MaxFailedAttempts
          /\ LoginVerifyReply(c, reply)
    \/ \E c \in AuthCallers, reply \in AuthReplies("get_access_token"),
          access_end \in LoginAccessEnds :
          /\ failed_attempts < MaxFailedAttempts
          /\ LoginTokenReply(c, reply, access_end)
    \/ \E c \in AuthCallers : refresh_token_if_needed(c)
    \/ \E c \in AuthCallers, reply \in AuthReplies("get_access_token"),
          access_end \in AccessEnds :
          /\ failed_attempts < MaxFailedAttempts
          /\ AuthCallEnd(c, reply, access_end)
    \/ clear_tokens
    \/ \E d \in AdvanceSteps :
          /\ advances < MaxAdvances
          /\ AuthAdvance(d)

SpecSession == Init /\ [][NextSession]_vars

\* The log lines of request_auth_code and get_access_token under the
\* logging configurations, while fewer than MaxLogLines lines were emitted.
NextLogging ==
    \/ \E global_level \in LevelNames,
          modules \in [auth_manager : LevelNames \cup {None},
                       api_client : LevelNames \cup {None}] :
          setup_logging(global_level, modules)
    \/ \E phone \in Phones, authid \in AuthIds :
          /\ Len(log_sink) < MaxLogLines
          /\ request_auth_code_logs(phone, authid)
    \/ \E authid \in AuthIds, access_token \in AccessTokens :
          /\ Len(log_sink) < MaxLogLines
          /\ get_access_token_logs(authid, access_token)

SpecLogging == Init /\ [][NextLogging]_vars

NextGetDevices ==
    \/ \E c \in DeviceCallers, force_refresh \in BOOLEAN :
          /\ device_calls_made < MaxListCalls
          /\ get_devices(c, force_refresh)
    \/ \E c \in DeviceCallers, reply \in EnumerationReplies : ListReply(c, reply)
    \/ \E d \in CacheSteps :
          /\ advances < MaxCacheAdvances
          /\ DeviceAdvance(d)

SpecGetDevices == Init /\ [][NextGetDevices]_vars

(***************************************************************************)
(* The claims                                                              *)
(***************************************************************************)

IsFailure(o) == o.kind \in {"TimeoutException", "NetworkError"}

\* C8: a request whose attempt fails with a network or timeout failure is
\* attempted again, up to 3 attempts; the failure is surfaced only when all
\* 3 attempts failed, and a success on a later attempt is returned.
C8_RetriedUpToThree ==
    tr.pc = "done" =>
        /\ (tr.result.kind = "raise" /\ IsFailure(tr.replies[Len(tr.replies)]))
              => tr.attempts = STOP_AFTER_ATTEMPT
        /\ \A i \in 1..Len(tr.replies) :
              IsFailure(tr.replies[i]) => i < Len(tr.replies) \/ i = STOP_AFTER_ATTEMPT

\* C9: a reply with an HTTP status >= 400 ends the request after exactly one
\* attempt with an IS74ApiError carrying that status and the response body.
C9_HttpErrorNotRetried ==
    \A i \in 1..Len(tr.replies) :
        (tr.replies[i].kind = "response" /\ tr.replies[i].status >= 400) =>
            /\ tr.pc = "done"
            /\ tr.attempts = 1
            /\ tr.result.kind = "raise"
            /\ tr.result.exc = "IS74ApiError"
            /\ tr.result.status_code = tr.replies[i].status
            /\ tr.result.response_data = error_data(tr.replies[i])

C9_Witness ==
    /\ tr.pc = "done"
    /\ tr.result.kind = "raise"
    /\ tr.result.status_code = 500


\* What C7 says should_auto_open is, for a configuration and a call time.
AutoOpenExpected(config, call_time) ==
    /\ config.enabled
    /\ \/ config.schedules = <<>>
       \/ \E i \in 1..Len(config.schedules) :
             /\ weekday(call_time) \in config.schedules[i].days
             /\ config.schedules[i].time_start <= time_of(call_time)
             /\ time_of(call_time) <= config.schedules[i].time_end

\* C7: should_auto_open is false when the configuration is disabled, true when
\* it is enabled with no schedules, and otherwise true iff some schedule has
\* the call's weekday and time_start <= the call's time of day <= time_end.
C7_ShouldAutoOpen ==
    [][auto_open_last' # auto_open_last =>
          auto_open_last'.result =
              AutoOpenExpected(auto_open_config, auto_open_last'.call_time)]_vars

\* A scheduled configuration was asked at the last instant of a window that
\* is longer than an instant, and answered yes.
C7_Witness ==
    /\ auto_open_last.call_time # Nil
    /\ auto_open_last.result
    /\ auto_open_config.schedules # <<>>
    /\ \E i \in 1..Len(auto_open_config.schedules) :
          /\ weekday(auto_open_last.call_time) \in auto_open_config.schedules[i].days
          /\ auto_open_config.schedules[i].time_start < auto_open_config.schedules[i].time_end
          /\ time_of(auto_open_last.call_time) = auto_open_config.schedules[i].time_end

\* C5: the stored history never exceeds 100 entries and is exactly the most
\* recent min(n, 100) of the n logged events, in the order they were logged.
C5_HistoryIsMostRecent ==
    /\ Len(history) <= 100
    /\ Len(history) = (IF Len(logged) < 100 THEN Len(logged) ELSE 100)
    /\ \A i \in 1..Len(history) :
          history[i] = logged[Len(logged) - Len(history) + i]

\* More than 100 events were logged, of more than one type.
C5_Witness ==
    /\ Len(logged) > 100
    /\ Len(history) = 100
    /\ \E i \in 1..Len(logged) : logged[i].type # logged[Len(logged)].type

\* The entries of the history a query is about.
Matches(e) ==
    CASE query.op = "get_history_by_type" -> e.type = query.arg
      [] query.op = "get_history_by_device" -> e.device_id = query.arg
      [] OTHER -> TRUE

\* C6: each history query returns at most limit entries, all satisfying the
\* filter, most recent first, and they are the most recent matching entries.
C6_QueryWithinLimit ==
    [][query' # query =>
        LET events == query'.events
            matching == {i \in 1..Len(history) : Matches(history[i])}'
        IN /\ Len(events) <= query'.limit
           /\ Len(events) = query'.limit \/ Len(events) = Cardinality(matching)
           /\ \A k \in 1..Len(events) :
                 \E i \in matching :
                    /\ events[k] = history[i]
                    /\ Cardinality({j \in matching : j > i}) = k - 1]_vars

\* C2 as claimed: when an open_door for the device is issued while the
\* lock-reset task of an earlier successful open_door still sleeps, that task
\* publishes no "locked" transition (the only one comes 5 s after the second
\* open).
C2_SecondOpenResetsTimer ==
    \A i \in 1..Len(tasks) : tasks[i].reopened => tasks[i].state # "done"

\* The statuses published for the device of the k-th one, without those that
\* report an error, before the k-th.
EarlierOf(k) ==
    {j \in 1..(k - 1) :
        /\ lock_statuses[j].device_id = lock_statuses[k].device_id
        /\ lock_statuses[j].error = None}

\* C2 as amended: every "locked" transition a lock-reset task publishes comes
\* exactly 5 s after the completion of the most recent successful open_door
\* of the device, and at most one per such completion: the status published
\* for the device just before it is that open's "unlocked". A task whose
\* device was opened again with success while it slept publishes nothing.
C2_LockedOnceAfterLastOpen ==
    /\ \A k \in 1..Len(lock_statuses) :
          (lock_statuses[k].is_locked /\ lock_statuses[k].error = None) =>
              \E j \in EarlierOf(k) :
                 /\ \A m \in EarlierOf(k) : m <= j
                 /\ ~lock_statuses[j].is_locked
                 /\ lock_statuses[k].timestamp =
                       lock_statuses[j].timestamp + Seconds(5)
    /\ \A i \in 1..Len(tasks), j \in 1..Len(tasks) :
          (i < j /\ tasks[i].device_id = tasks[j].device_id
                 /\ tasks[i].state = "done")
             => tasks[i].wake_at <= tasks[j].wake_at - Seconds(5)

\* A second open_door, issued while the first task slept, succeeded before
\* the task woke: the first task was cancelled and the second has published
\* the one "locked" transition.
C2_Witness ==
    \E i \in 1..Len(tasks), j \in 1..Len(tasks) :
        /\ i < j
        /\ tasks[i].device_id = tasks[j].device_id
        /\ tasks[i].reopened
        /\ tasks[i].state = "cancelled"
        /\ tasks[j].state = "done"
        /\ tasks[i].wake_at < tasks[j].wake_at
        /\ lock_statuses[Len(lock_statuses)].is_locked
        /\ lock_statuses[Len(lock_statuses)].timestamp = tasks[j].wake_at

\* The id no device list of the vendor holds.
UnknownId == "d2"

MonitorChecked ==
    monitoring_enabled /\ monitoring_enabled' /\ monitor_wake' # monitor_wake

\* C4: a pass of the monitor publishes exactly one offline DeviceStatus for a
\* device that is reported online and whose last successful contact is more
\* than 30 s old, and marks it offline; for any other device, one already
\* marked offline included, it publishes nothing.
C4_OfflineOnce ==
    [][MonitorChecked =>
          \A d \in DeviceIds :
             LET lost == /\ device_status[d] = "online"
                         /\ last_successful_connection[d] # Nil
                         /\ now - last_successful_connection[d] > Seconds(30)
                 new == {k \in (Len(device_statuses) + 1)..Len(device_statuses') :
                            device_statuses'[k].device_id = d}
             IN IF lost
                THEN /\ Cardinality(new) = 1
                     /\ \A k \in new : ~device_statuses'[k].is_online
                     /\ device_status'[d] = "offline"
                ELSE /\ new = {}
                     /\ device_status'[d] = device_status[d]]_vars

\* The monitor has published d1 offline, and has made a later pass with d1
\* still offline: the offline status is still the last one published.
C4_Witness ==
    /\ device_statuses # <<>>
    /\ LET last == device_statuses[Len(device_statuses)]
       IN /\ last.device_id = "d1"
          /\ ~last.is_online
          /\ last.last_seen # Nil
          /\ last.timestamp - last.last_seen > Seconds(30)
          /\ cache_timestamp < last.timestamp
          /\ monitoring_enabled
          /\ monitor_wake > last.timestamp + Seconds(10)
    /\ device_status["d1"] = "offline"

\* A step in which _check_rate_limit rejected a call.
CallRejected ==
    /\ auth_last' # auth_last
    /\ auth_calls' = auth_calls

\* A step in which the call of caller c ended.
CallEnded(c) ==
    auth_calls[c].pc = "posted" /\ auth_calls'[c].pc = "idle"

\* Three calls in a row have failed, the third less than 300 s ago.
AfterThirdFailure ==
    /\ streak >= 3
    /\ now < third_failure_at + Seconds(300)

\* C1: once three consecutive authentication calls have failed (here: with an
\* error of the transport), every authentication call made less than 300 s
\* after the third failure is rejected with a RateLimitError whose
\* retry_after is in (0, 300], and no request of it goes to the vendor.
C1_LockoutRejects ==
    [][AfterThirdFailure =>
          /\ \A c \in AuthCallers :
                auth_calls'[c].pc = "posted" => auth_calls[c].pc = "posted"
          /\ CallRejected =>
                /\ auth_last'.outcome = "RateLimitError"
                /\ ~auth_last'.sent
                /\ auth_last'.retry_after > 0
                /\ auth_last'.retry_after <= 300]_vars

\* C10 as claimed: a success at any authentication step resets the failure
\* counter to zero.
C10_AnySuccessResets ==
    [][\A c \in AuthCallers :
          (CallEnded(c) /\ auth_last'.outcome = "ok") => failed_attempts' = 0]_vars

\* C10 as amended: a success of get_access_token resets the failure counter
\* to zero and clears the lockout deadline, so that a lockout starts only
\* with the third failure counted after it; a success of request_auth_code
\* or of verify_code leaves the counter and the deadline as they were.
C10_TokenSuccessResets ==
    [][/\ \A c \in AuthCallers :
             (CallEnded(c) /\ auth_last'.outcome = "ok") =>
                 IF auth_calls[c].op = "get_access_token"
                 THEN failed_attempts' = 0 /\ lockout_until' = Nil
                 ELSE /\ failed_attempts' = failed_attempts
                      /\ lockout_until' = lockout_until
       /\ (lockout_until' # lockout_until /\ lockout_until' # Nil) =>
             /\ failed_attempts' = failed_attempts + 1
             /\ failed_attempts' >= 3]_vars

\* A get_access_token posted before a lockout started has succeeded during
\* it: the counter is zero and the deadline cleared within 300 s of a third
\* failure.
C10_Witness ==
    /\ auth_last.op = "get_access_token"
    /\ auth_last.outcome = "ok"
    /\ third_failure_at # Nil
    /\ now < third_failure_at + Seconds(300)
    /\ failed_attempts = 0
    /\ lockout_until = Nil

\* C11: every authentication call that is not rejected by the rate limiter
\* and ends in failure (an error of the transport, or a reply of the vendor
\* that is invalid) increments the failure counter by exactly one.
C11_FailureCounted ==
    [][\A c \in AuthCallers :
          (CallEnded(c) /\ auth_last'.outcome = "AuthenticationError") =>
              failed_attempts' = failed_attempts + 1]_vars

\* A step in which the open_door call of caller c, for a device the vendor
\* knows, ended with a DeviceControlError other than DEVICE_NOT_FOUND.
OpenDoorFailed(c) ==
    /\ device_calls[c].op = "open_door"
    /\ device_calls[c].device_id # UnknownId
    /\ device_calls[c].pc # "idle"
    /\ device_calls'[c].pc = "idle"
    /\ device_last'.outcome = "DeviceControlError"
    /\ device_last'.error_code # "DEVICE_NOT_FOUND"

\* C12: every open_door on a known device that fails with an error of the
\* transport or an unexpected exception, a failure to obtain the device list
\* included, publishes exactly one "locked, with error" DoorLockStatus,
\* raises DeviceControlError and schedules no lock-reset timer.
C12_FailurePublished ==
    [][\A c \in DeviceCallers :
          OpenDoorFailed(c) =>
              /\ Len(lock_statuses') = Len(lock_statuses) + 1
              /\ lock_statuses'[Len(lock_statuses')].device_id = device_calls[c].device_id
              /\ lock_statuses'[Len(lock_statuses')].is_locked
              /\ lock_statuses'[Len(lock_statuses')].error # None
              /\ tasks' = tasks
              /\ lock_reset_tasks' = lock_reset_tasks]_vars

\* An open_door for device d awaits the vendor.
OpenInFlight(d) ==
    \E c \in DeviceCallers :
        device_calls[c].pc # "idle" /\ device_calls[c].device_id = d

\* The k-th lock-reset task sleeps and no open_door for its device is under
\* way.
SleepsUndisturbed(k) ==
    /\ k <= Len(tasks)
    /\ tasks[k].state = "sleeping"
    /\ ~tasks[k].reopened
    /\ ~OpenInFlight(tasks[k].device_id)

\* C13: a successful open_door publishes "unlocked" in the step in which it
\* returns and starts a task that wakes 5 s later; unless a further open_door
\* for the device or the shutdown comes first, that task eventually
\* publishes "locked" for the device, once and exactly 5 s after the open.
C13_UnlockedThenLocked ==
    /\ [][\A c \in DeviceCallers :
             (device_calls[c].pc = "post" /\ device_calls'[c].pc = "idle"
              /\ device_last'.outcome = "True") =>
                 /\ lock_statuses' = Append(lock_statuses,
                        [device_id |-> device_calls[c].device_id,
                         is_locked |-> FALSE, timestamp |-> now, error |-> None])
                 /\ Len(tasks') = Len(tasks) + 1
                 /\ tasks'[Len(tasks')].state = "sleeping"
                 /\ tasks'[Len(tasks')].device_id = device_calls[c].device_id
                 /\ tasks'[Len(tasks')].wake_at = now + Seconds(5)]_vars
    /\ [][\A k \in 1..Len(tasks) :
             /\ (tasks[k].state = "sleeping" /\ tasks'[k].state = "done") =>
                    /\ now = tasks[k].wake_at
                    /\ lock_statuses' = Append(lock_statuses,
                           [device_id |-> tasks[k].device_id, is_locked |-> TRUE,
                            timestamp |-> now, error |-> None])
             /\ tasks[k].state = "done" =>
                    /\ tasks'[k] = tasks[k]
                    /\ \A j \in (Len(lock_statuses) + 1)..Len(lock_statuses') :
                          lock_statuses'[j].timestamp = tasks[k].wake_at =>
                             ~(lock_statuses'[j].is_locked
                               /\ lock_statuses'[j].error = None)]_vars
    /\ \A k \in 1..MaxListCalls :
          SleepsUndisturbed(k) ~>
              (k <= Len(tasks) /\ (\/ tasks[k].state = "done"
                                   \/ tasks[k].reopened
                                   \/ tasks[k].shutdown))

\* A task that no open_door and no shutdown disturbed has published "locked"
\* 5 s after the "unlocked" of its open_door.
C13_Witness ==
    \E k \in 1..Len(tasks) :
        /\ tasks[k].state = "done"
        /\ ~tasks[k].reopened
        /\ Len(lock_statuses) >= 2
        /\ lock_statuses[Len(lock_statuses)] =
              [device_id |-> tasks[k].device_id, is_locked |-> TRUE,
               timestamp |-> tasks[k].wake_at, error |-> None]
        /\ lock_statuses[Len(lock_statuses) - 1] =
              [device_id |-> tasks[k].device_id, is_locked |-> FALSE,
               timestamp |-> tasks[k].wake_at - Seconds(5), error |-> None]

\* A get_devices call starts (the one call this step starts).
GetDevicesStarts(force_refresh) ==
    /\ device_calls_made' = device_calls_made + 1
    /\ \/ device_last' # device_last /\ device_last'.op = "get_devices"
                                     /\ device_last'.force_refresh = force_refresh
       \/ \E c \in DeviceCallers :
             /\ device_calls'[c] # device_calls[c]
             /\ device_calls'[c].op = "get_devices"
             /\ device_calls'[c].force_refresh = force_refresh

\* The step sends a request for the main list.
ListRequested ==
    \E c \in DeviceCallers :
        device_calls[c].pc = "idle" /\ device_calls'[c].pc = "get_main"

\* An enumeration succeeded less than 30 s ago.
EnumeratedRecently ==
    cache_timestamp # Nil /\ now - cache_timestamp < Seconds(30)

\* C14: get_devices(force_refresh=false) less than 30 s after a successful
\* enumeration returns the list of that enumeration without a vendor request,
\* an empty list included; with force_refresh=true, or 30 s or more after it,
\* the list is requested again.
C14_CachedWithinTtl ==
    [][/\ (GetDevicesStarts(FALSE) /\ EnumeratedRecently) =>
             /\ ~ListRequested
             /\ device_last'.outcome = "devices"
             /\ device_last'.gets = 0
             /\ device_last'.devices = devices_cache
       /\ (GetDevicesStarts(TRUE) \/ (GetDevicesStarts(FALSE) /\ ~EnumeratedRecently))
             => ListRequested]_vars

\* The devices of a result are those of the list: every device is an item of
\* the list and every item that has a MAC gave a device, in the list's order.
BuiltFrom(devices, device_list) ==
    /\ \A i \in 1..Len(devices) :
          \E j \in 1..Len(device_list) : device_list[j] = devices[i]
    /\ Len(devices) = Cardinality({j \in 1..Len(device_list) :
                                      device_list[j].id # None})

\* C15: on a cache miss get_devices returns the devices of the primary list
\* alone when that list is not empty, without a request for the secondary
\* one, and the devices of the secondary list alone when the primary list is
\* empty.
C15_SecondaryOnlyAsFallback ==
    (device_last.outcome = "devices" /\ device_last.gets >= 1) =>
        IF device_last.main # <<>>
        THEN /\ device_last.gets = 1
             /\ device_last.secondary = <<>>
             /\ BuiltFrom(device_last.devices, device_last.main)
        ELSE /\ device_last.gets = 2
             /\ BuiltFrom(device_last.devices, device_last.secondary)

\* The primary list came empty and the devices returned are those of the
\* secondary list.
C15_Witness ==
    /\ device_last.outcome = "devices"
    /\ device_last.gets = 2
    /\ device_last.main = <<>>
    /\ device_last.devices # <<>>
    /\ device_last.devices = device_last.secondary

\* refresh_token_if_needed ends in this step without having awaited anything.
RefreshEndsAtOnce ==
    /\ auth_last' # auth_last
    /\ auth_last'.op = "refresh_token_if_needed"
    /\ ~auth_last'.sent

\* refresh_token_if_needed posts its get-token request in this step.
RefreshPosts ==
    \E c \in AuthCallers :
        /\ auth_calls[c].pc = "idle"
        /\ auth_calls'[c] = [pc |-> "posted", op |-> "refresh_token_if_needed"]

\* The current token is more than 300 s from its expiry.
FarFromExpiry == tokens # NoTokens /\ tokens.expires_at - now > Seconds(300)

\* C16: refresh_token_if_needed on a token more than 300 s from expiry
\* returns False, sends no request and leaves the tokens, the failure counter
\* and the lockout deadline as they are; a request to re-derive the token is
\* sent only within 300 s of the expiry or after it, with the stored authid.
C16_RefreshOnlyNearExpiry ==
    [][/\ (FarFromExpiry /\ (RefreshEndsAtOnce \/ RefreshPosts)) =>
             /\ auth_last'.outcome = "False"
             /\ ~RefreshPosts
             /\ UNCHANGED <<tokens, auth_header, failed_attempts, lockout_until,
                            auth_id, auth_calls>>
       /\ RefreshPosts =>
             /\ tokens # NoTokens
             /\ tokens.expires_at - now <= Seconds(300)
             /\ tokens.authid # None]_vars

\* The refresh was declined a tick before the threshold, after a failure
\* had been counted.
C16_Witness ==
    /\ auth_last.op = "refresh_token_if_needed"
    /\ auth_last.outcome = "False"
    /\ tokens # NoTokens
    /\ tokens.expires_at - now = Seconds(300) + 1
    /\ failed_attempts > 0

\* The remaining seconds of the lockout, rounded as the code rounds them.
RetryAfter == (lockout_until - now) \div TicksPerSecond

\* C17: while a lockout is active, refresh_token_if_needed on a token within
\* the refresh threshold sends no request and fails with a RateLimitError
\* that carries the remaining seconds.
C17_RefreshRateLimited ==
    [][(/\ tokens # NoTokens
        /\ tokens.authid # None
        /\ tokens.expires_at - now <= Seconds(300)
        /\ lockout_until # Nil /\ now < lockout_until
        /\ (RefreshEndsAtOnce \/ RefreshPosts)) =>
            /\ ~RefreshPosts
            /\ auth_last'.outcome = "RateLimitError"
            /\ auth_last'.retry_after = RetryAfter]_vars

\* C18: whenever login's verify and token requests succeed, login returns the
\* TokenSet with the session authenticated (the tokens current and the
\* bearer set) and the tokens saved, whether the request for the push token
\* succeeded or failed.
C18_PushFailureNotFatal ==
    [][\A c \in AuthCallers :
          (/\ auth_calls[c].pc = "login_token"
           /\ auth_calls'[c].pc = "idle"
           /\ auth_last'.issued) =>
              /\ auth_last'.outcome = "TokenSet"
              /\ auth_last'.push \in {"ok", "failed"}
              /\ tokens'.access_token # None
              /\ tokens'.firebase_token # None <=> auth_last'.push = "ok"
              /\ auth_header' = tokens'.access_token
              /\ saved_tokens' = tokens']_vars

\* login has returned the tokens although the push token could not be had.
C18_Witness ==
    /\ auth_last.op = "login"
    /\ auth_last.issued
    /\ auth_last.push = "failed"
    /\ auth_last.outcome = "TokenSet"
    /\ tokens.firebase_token = None
    /\ saved_tokens = tokens
    /\ tokens.access_token # None

\* handle_call_event is called in this step for a call of device d with
\* timestamp t.
Invoked(d, t) ==
    /\ calls_received' = calls_received + 1
    /\ \/ /\ handled_last'.call_id = calls_received'
          /\ handled_last'.device_id = d
          /\ handled_last'.timestamp = t
       \/ \E c \in DeviceCallers :
             /\ call_events'[c].call_id = calls_received'
             /\ call_events'[c].device_id = d
             /\ call_events'[c].timestamp = t

\* C19: when should_auto_open is false for the incoming call,
\* handle_call_event calls no open_door, publishes no transition, schedules
\* no timer and appends no event; it returns False.
C19_DeclinedCallLeavesNoTrace ==
    [][\A d \in DeviceIds, t \in CallTimes :
          (Invoked(d, t) /\ ~AutoOpenExpected(auto_open_config, t)) =>
              /\ UNCHANGED <<deviceVars, history, logged, notifyVars, call_events>>
              /\ handled_last'.call_id = calls_received'
              /\ ~handled_last'.result]_vars

\* A call outside the window of the schedule was declined after a call
\* inside it had opened the door: one event, one open_door, one task.
C19_Witness ==
    /\ calls_received = 2
    /\ handled_last.call_id = 2
    /\ ~handled_last.result
    /\ auto_open_config.enabled
    /\ auto_open_config.schedules # <<>>
    /\ ~AutoOpenExpected(auto_open_config, handled_last.timestamp)
    /\ Len(logged) = 1
    /\ device_calls_made = 1
    /\ Len(tasks) = 1

\* The open_door of a call being handled returns or raises in this step.
OpenDoorEnds ==
    /\ handled_last'.call_id # handled_last.call_id
    /\ device_calls_made' # device_calls_made \/ calls_received' = calls_received

\* The step logs one event for the call handled, carrying its call id.
LogsForCall(event_type) ==
    /\ Len(logged') = Len(logged) + 1
    /\ logged'[Len(logged')].type = event_type
    /\ logged'[Len(logged')].device_id = handled_last'.device_id
    /\ logged'[Len(logged')].metadata.call_id = handled_last'.call_id
    /\ history' = trim(Append(history, logged'[Len(logged')]))

\* When should_auto_open is true for the incoming call, handle_call_event
\* calls open_door for the call's device, once, and awaits it.
OpensOnce ==
    /\ \A c \in DeviceCallers :
          call_events[c] # NoCallEvent =>
              /\ device_calls[c].pc # "idle"
              /\ device_calls[c].op = "open_door"
              /\ device_calls[c].device_id = call_events[c].device_id
    /\ calls_received >= device_calls_made

OpensWhenExpected ==
    \A d \in DeviceIds, t \in CallTimes :
        (Invoked(d, t) /\ AutoOpenExpected(auto_open_config, t)) =>
            /\ device_calls_made' = device_calls_made + 1
            /\ \/ \E c \in DeviceCallers :
                     /\ call_events'[c].call_id = calls_received'
                     /\ device_calls'[c].op = "open_door"
                     /\ device_calls'[c].device_id = d
                     /\ device_calls[c].pc = "idle"
               \/ /\ handled_last'.call_id = calls_received'
                  /\ device_last'.op = "open_door"
                  /\ device_last'.device_id = d

\* C20 as claimed: when should_auto_open is true for the incoming call,
\* handle_call_event calls open_door for the call's device exactly once and
\* then logs an auto_open event that carries the call id and the call
\* timestamp.
C20_OpensThenLogsAutoOpen ==
    /\ []OpensOnce
    /\ [][/\ OpensWhenExpected
          /\ OpenDoorEnds =>
                /\ LogsForCall("auto_open")
                /\ logged'[Len(logged')].metadata.call_timestamp =
                      isoformat(handled_last'.timestamp)]_vars

\* C20 as amended: when should_auto_open is true for the incoming call,
\* handle_call_event calls open_door for the call's device exactly once; when
\* open_door returns it logs an auto_open event that carries the call id and
\* the call timestamp and returns True, and when open_door raises it logs an
\* error event that carries the call id and returns False.
C20_OpensThenLogsOutcome ==
    /\ []OpensOnce
    /\ [][/\ OpensWhenExpected
          /\ OpenDoorEnds =>
                IF device_last'.outcome = "True"
                THEN /\ LogsForCall("auto_open")
                     /\ logged'[Len(logged')].metadata.call_timestamp =
                           isoformat(handled_last'.timestamp)
                     /\ logged'[Len(logged')].metadata.auto_opened
                     /\ handled_last'.result
                ELSE /\ LogsForCall("error")
                     /\ logged'[Len(logged')].metadata.error = "auto_open_failed"
                     /\ ~handled_last'.result]_vars

\* A call was handled with the door opened and the auto_open event logged,
\* and another with open_door failing and the error event logged.
C20_Witness ==
    /\ Len(logged) = 2
    /\ \E i, j \in 1..2 :
          /\ logged[i].type = "auto_open"
          /\ logged[i].metadata.call_timestamp # <<>>
          /\ logged[j].type = "error"
          /\ logged[j].metadata.call_id # logged[i].metadata.call_id
    /\ calls_received = 2
    /\ device_calls_made = 2

\* Some background activity is left: a lock-reset task sleeps, the monitor
\* runs, or the push listener's task runs.
BackgroundActivity ==
    \/ \E i \in 1..Len(tasks) : tasks[i].state = "sleeping"
    \/ monitoring_enabled
    \/ monitor_wake # Nil
    \/ fcm_task = "running"

\* C21: once the shutdown has returned no background activity remains: no
\* lock-reset task is outstanding and no "locked" transition is published
\* any more, also for an open_door that was in flight during the shutdown;
\* the monitor has stopped and the push listener's task is cancelled.
C21_NothingRunsAfterShutdown ==
    /\ [](closed => ~BackgroundActivity)
    /\ [][closed =>
             \A k \in (Len(lock_statuses) + 1)..Len(lock_statuses') :
                ~(lock_statuses'[k].is_locked /\ lock_statuses'[k].error = None)]_vars

\* A notification task is stuck at a subscriber that never completes.
Stuck(i) == notifications[i].state = "awaiting"

\* A subscriber has raised in notification task i.
Raised(i) ==
    \E k \in 1..Len(notifications[i].outcomes) :
        notifications[i].outcomes[k] = "error logged"

\* C22: log_event appends the event and returns without waiting for any
\* subscriber (its notification task has not run when it returns); whatever
\* the subscribers did before, also raise or never complete, log_event can
\* be called and completes, and the steps of the notification tasks leave
\* the stored history as it is.
C22_SubscribersNeverBlock ==
    /\ [](\A event_type \in EventTypes, device_id \in DeviceIds :
             ENABLED log_event(event_type, device_id))
    /\ [][Len(logged') = Len(logged) + 1 =>
             /\ history' = trim(Append(history, logged'[Len(logged')]))
             /\ Len(notifications') = Len(notifications) + 1
             /\ notifications'[Len(notifications')].state = "pending"
             /\ notifications'[Len(notifications')].outcomes = <<>>
             /\ \A i \in 1..Len(notifications) : notifications'[i] = notifications[i]]_vars
    /\ [][logged' = logged => history' = history]_vars

\* An event was logged and stored after a subscriber got stuck on an
\* earlier event and another had raised.
C22_Witness ==
    \E i \in 1..Len(notifications) :
        /\ Stuck(i)
        /\ Raised(i)
        /\ notifications[i].event < Len(logged)
        /\ history[Len(history)].id = Len(logged)

\* The DeviceStatus records published for device d, in their order.
PublishedFor(d, published) ==
    LET of_d(status) == status.device_id = d
    IN SelectSeq(published, of_d)

\* A get_devices call that asked the vendor returns in this step with a
\* list that has d online.
EnumerationReportsOnline(d) ==
    /\ \E c \in DeviceCallers :
          /\ device_calls[c].op = "get_devices"
          /\ device_calls[c].pc # "idle"
          /\ device_calls'[c].pc = "idle"
    /\ device_last'.outcome = "devices"
    /\ \E i \in 1..Len(device_last'.devices) :
          /\ device_last'.devices[i].id = d
          /\ is_online(device_last'.devices[i])

\* C23: when the last DeviceStatus published for a device is offline, a
\* successful enumeration that reports the device online publishes exactly
\* one online DeviceStatus for it; when the last one published is online
\* already, such an enumeration publishes nothing for it.
C23_OnlinePublishedOnce ==
    [][\A d \in DeviceIds :
          EnumerationReportsOnline(d) =>
              LET before == PublishedFor(d, device_statuses)
                  after == PublishedFor(d, device_statuses')
              IN IF before = <<>> THEN TRUE
                 ELSE IF before[Len(before)].is_online THEN after = before
                 ELSE /\ Len(after) = Len(before) + 1
                      /\ \A k \in 1..Len(before) : after[k] = before[k]
                      /\ after[Len(after)].is_online]_vars

\* d1 was published offline, then online by the enumeration after it, and a
\* later enumeration that reported it online published nothing.
C23_Witness ==
    LET published == PublishedFor("d1", device_statuses)
        n == Len(published)
    IN /\ n >= 2
       /\ ~published[n - 1].is_online
       /\ published[n].is_online
       /\ device_last.outcome = "devices"
       /\ device_last.gets >= 1
       /\ device_last.devices # <<>>
       /\ is_online(device_last.devices[1])
       /\ cache_timestamp > published[n].timestamp

\* The DoorLockStatus records delivered for device d, in their order.
DeliveredFor(d) ==
    LET of_d(status) == status.device_id = d
    IN SelectSeq(lock_statuses, of_d)

\* C24: for each device, two consecutive DoorLockStatus records delivered to
\* the subscriber never carry the same is_locked value, whatever the
\* sequence of successful and failing open_door calls and timer firings.
C24_EdgeTriggered ==
    \A d \in DeviceIds :
        LET delivered == DeliveredFor(d)
        IN \A k \in 1..(Len(delivered) - 1) :
              delivered[k].is_locked # delivered[k + 1].is_locked

\* A call that was idle has a request at the vendor after this step: the
\* request for a device list, or the relay-open request.
RequestSentByNewCall ==
    \E c \in DeviceCallers :
        /\ device_calls[c].pc = "idle"
        /\ device_calls'[c].pc \in {"get_main", "get_secondary", "post"}

\* C25: when the session is not authenticated (no token, or the token
\* expired), open_door and handle_call_event send no request for a device
\* list and no relay-open request to the vendor.
C25_GatedOnSession ==
    [][~is_authenticated(tokens) => ~RequestSentByNewCall]_vars

\* C26: authentication calls are serialized, each call's rate-limit check
\* seeing the counter and the deadline as every call started before it left
\* them: once the third failure has started the lockout, no further vendor
\* request of an authentication call fails (and is counted) while the
\* lockout runs.
C26_AuthenticationSerialized ==
    [][\A c \in AuthCallers :
          (CallEnded(c) /\ failed_attempts' = failed_attempts + 1) =>
              ~rate_limited]_vars

\* A refresh_token_if_needed call ends in this step having refreshed the
\* token.
RefreshSucceeds ==
    /\ \E c \in AuthCallers :
          auth_calls[c].op = "refresh_token_if_needed" /\ CallEnded(c)
    /\ auth_last'.outcome = "True"

\* C27: a successful refresh of the access token replaces access_token and
\* expires_at of the current TokenSet and leaves its push token and its
\* phone as they were before the refresh.
C27_RefreshKeepsPushAndPhone ==
    [][RefreshSucceeds =>
          /\ tokens'.access_token # None
          /\ tokens'.expires_at # Nil
          /\ tokens'.firebase_token = tokens.firebase_token
          /\ tokens'.phone = tokens.phone]_vars

\* The tokens become current in this step.
TokensAppear == tokens = NoTokens /\ tokens' # NoTokens

\* A login call ends in this step with the tokens.
LoginSucceeds ==
    /\ \E c \in AuthCallers :
          auth_calls[c].op = "login" /\ auth_calls'[c].pc = "idle"
    /\ auth_last'.op = "login"
    /\ auth_last'.issued

\* clear_tokens is what this step does.
LogsOut == tokens' = NoTokens /\ auth_header' = None /\ UNCHANGED <<auth_calls, auth_last>>

\* C28: is_expired(T) holds iff now >= T.expires_at, and is_authenticated()
\* holds exactly when a TokenSet is current and now < its expires_at; after
\* clear_tokens no TokenSet is current and is_authenticated() is false, and
\* a TokenSet becomes current again only by a successful login.
C28_AuthenticatedUntilLogout ==
    /\ [](tokens # NoTokens => (is_expired(tokens) <=> now >= tokens.expires_at))
    /\ [](is_authenticated(tokens) <=> (tokens # NoTokens /\ now < tokens.expires_at))
    /\ [][LogsOut => ~is_authenticated(tokens')]_vars
    /\ [][TokensAppear => LoginSucceeds]_vars

\* An attempt of a relay-open request goes to the vendor in this step.
RelayOpenSent ==
    /\ tr'.pc = "attempt"
    /\ tr'.endpoint = RelayOpenEndpoint
    /\ tr' # tr

Verbatim(text) == \E k \in 1..Len(text) : text[k].value \in Secrets

\* C30: no access token, continuation id or phone number that passes
\* through the transport or the session manager appears verbatim in the
\* message of a log line the handlers emitted.
C30_NoSecretInLogLines ==
    \A i \in 1..Len(log_sink) : ~Verbatim(log_sink[i].msg)


\* The lockout that three failures started has run its 300 s.
LockoutElapsed ==
    /\ lockout_until # Nil
    /\ now >= lockout_until

\* C31: once the 300 s of a lockout have elapsed, no authentication call is
\* rejected with RateLimitError, and a call that fails then is reported as an
\* AuthenticationError and starts no new lockout: the call that follows it
\* is not rejected either.
C31_AfterLockoutOnOwnMerits ==
    [][LockoutElapsed =>
          /\ CallRejected => auth_last'.outcome # "RateLimitError"
          /\ \A c \in AuthCallers :
                (CallEnded(c) /\ failed_attempts' = failed_attempts + 1) =>
                    /\ auth_last'.outcome = "AuthenticationError"
                    /\ ~rate_limited']_vars

\* No authentication call has ended yet: the session is as constructed,
\* with no code requested, nothing verified and no token.
NoCallHasEnded ==
    /\ auth_last = NoAuthResult
    /\ tokens = NoTokens

\* C32: verify_code is accepted only after a request_auth_code has
\* succeeded, and a token is issued only after a verify_code has succeeded:
\* the first authentication call to end is neither an accepted verify_code
\* nor a call that issues a token.
C32_SessionFollowsItsStates ==
    [][\A c \in AuthCallers :
          (CallEnded(c) /\ NoCallHasEnded) =>
              /\ ~(auth_calls[c].op = "verify_code" /\ auth_last'.outcome = "ok")
              /\ ~auth_last'.issued
              /\ tokens' = NoTokens]_vars

\* A step of an open_door call for device d: the call starts, gets its list
\* or gets the answer to its relay-open request.
OpenDoorStep(d) ==
    \E c \in DeviceCallers :
        /\ device_calls'[c] # device_calls[c]
        /\ \/ device_calls[c].device_id = d
           \/ device_calls'[c].device_id = d

\* A step in which the lock-reset timer of device d fires.
TimerFires(d) ==
    \E i \in 1..Len(tasks) :
        /\ tasks[i].device_id = d
        /\ tasks[i].state = "sleeping"
        /\ tasks'[i].state = "done"

\* The step leaves device d alone: its entry in the tracking and its tasks
\* are as they were, no task is created for it and no DoorLockStatus is
\* published for it.
LeavesAlone(d) ==
    /\ lock_reset_tasks'[d] = lock_reset_tasks[d]
    /\ Len(tasks') >= Len(tasks)
    /\ \A i \in 1..Len(tasks') :
          tasks'[i].device_id = d => (i <= Len(tasks) /\ tasks'[i] = tasks[i])
    /\ Len(lock_statuses') >= Len(lock_statuses)
    /\ \A i \in Len(lock_statuses) + 1..Len(lock_statuses') :
          lock_statuses'[i].device_id # d

\* C33: a step of an open_door for device A, successful or failing, and the
\* firing of A's timer leave every other device B alone: B's pending timer is
\* neither cancelled, restarted nor delayed, and no DoorLockStatus is
\* published for B.
C33_DevicesIndependent ==
    [][\A A \in DeviceIds, B \in DeviceIds :
          (A # B /\ (OpenDoorStep(A) \/ TimerFires(A))) => LeavesAlone(B)]_vars

\* The timer of d1 is pending, set by an open_door that succeeded after the
\* open_door that set the timer of d2, which is pending too.
C33_Witness ==
    \E i, j \in 1..Len(tasks) :
        /\ i < j
        /\ tasks[i].device_id = "d2" /\ tasks[i].state = "sleeping"
        /\ tasks[j].device_id = "d1" /\ tasks[j].state = "sleeping"
        /\ lock_reset_tasks["d2"] = i
        /\ lock_reset_tasks["d1"] = j

\* A step in which the push listener delivers the payload of an incoming
\* call.
PayloadDelivered == push_received' = push_received + 1

\* C34: every payload the push listener delivers is handed to
\* handle_call_event once, and with auto-open enabled by the host through
\* the auto-open route and no schedules configured, open_door is called for
\* it.
C34_PushReachesAutoOpen ==
    [][PayloadDelivered =>
          /\ calls_received' = calls_received + 1
          /\ (auto_open_enabled /\ auto_open_config.schedules = <<>>) =>
                device_calls_made' = device_calls_made + 1]_vars

\* The ids the stream has yielded of the events logged since it was opened
\* (from the i-th id it yielded on).
RECURSIVE emitted_after_open(_)
emitted_after_open(i) ==
    IF i > Len(stream.emitted) THEN <<>>
    ELSE IF stream.emitted[i] > stream.opened_at
         THEN <<stream.emitted[i]>> \o emitted_after_open(i + 1)
         ELSE emitted_after_open(i + 1)

\* The ids of the events logged since the stream was opened, in the order
\* logged.
LoggedAfterOpen ==
    [i \in 1..(Len(logged) - stream.opened_at) |-> stream.opened_at + i]

\* The stream is open and a round of its loop would yield nothing.
StreamAtRest ==
    /\ stream.pc = "open"
    /\ Len(most_recent(history, STREAM_HISTORY_LIMIT)) <= stream.last_event_count

\* C35: while the stream is open and has nothing left to emit, every event
\* logged since it was opened has been emitted exactly once, in the order
\* logged, however many events the history holds.
C35_StreamEmitsEachEventOnce ==
    StreamAtRest => emitted_after_open(1) = LoggedAfterOpen

\* C36: the transport carries a bearer credential exactly when a TokenSet is
\* current, and the credential is that TokenSet's access_token: after login,
\* refresh, logout and after the tokens were loaded from the token file.
C36_BearerIsCurrentToken ==
    /\ (auth_header # None) <=> (tokens # NoTokens)
    /\ tokens # NoTokens => auth_header = tokens.access_token

\* The lock-reset tasks of device d that have neither fired nor been
\* cancelled.
Pending(d) ==
    {i \in 1..Len(tasks) : tasks[i].device_id = d /\ tasks[i].state = "sleeping"}

\* C37: under every interleaving of open_door calls, timers firing and
\* cancel_all_reset_tasks, each device has at most one pending lock-reset
\* task, and the device's entry in _lock_reset_tasks, when present, is that
\* pending task.
C37_OnePendingTimerPerDevice ==
    \A d \in DeviceIds :
        /\ Cardinality(Pending(d)) <= 1
        /\ lock_reset_tasks[d] # Nil => Pending(d) = {lock_reset_tasks[d]}

\* A second open_door for d1 has cancelled the pending task of the first and
\* put its own in the tracking.
C37_Witness ==
    /\ Len(tasks) >= 2
    /\ tasks[1].device_id = "d1" /\ tasks[1].state = "cancelled"
    /\ tasks[2].device_id = "d1" /\ tasks[2].state = "sleeping"
    /\ lock_reset_tasks["d1"] = 2

\* The monitor's pass publishes device d offline.
MonitorPublishesOffline(d) ==
    /\ MonitorChecked
    /\ \E k \in (Len(device_statuses) + 1)..Len(device_statuses') :
          /\ device_statuses'[k].device_id = d
          /\ ~device_statuses'[k].is_online

\* C38: the monitor publishes a device offline only if no get_devices call
\* returned it with status online in the 30 s before, the calls answered
\* from the cache included.
C38_OfflineOnlyWhenNotListed ==
    [][\A d \in DeviceIds :
          MonitorPublishesOffline(d) =>
              \/ listed_online_at[d] = Nil
              \/ now - listed_online_at[d] >= Seconds(CONNECTION_TIMEOUT_SECONDS)]_vars

\* C39: when the open_door of a call being handled fails,
\* handle_call_event returns False (it raises nothing) and logs exactly one
\* event, an error event that carries the call id; and an auto_open event
\* is logged only in the step in which the open_door of its call has
\* returned True.
C39_FailedOpenLogsErrorOnly ==
    [][/\ (OpenDoorEnds /\ device_last'.outcome # "True") =>
             /\ LogsForCall("error")
             /\ ~handled_last'.result
       /\ \A k \in (Len(logged) + 1)..Len(logged') :
             logged'[k].type = "auto_open" =>
                 /\ OpenDoorEnds
                 /\ device_last'.op = "open_door"
                 /\ device_last'.outcome = "True"
                 /\ logged'[k].metadata.call_id = handled_last'.call_id
                 /\ handled_last'.result]_vars

\* The one call handled so far had its open_door fail: False was returned
\* and the log holds the error event of the call and nothing else.
C39_Witness ==
    /\ calls_received = 1
    /\ device_last.op = "open_door"
    /\ device_last.outcome = "DeviceControlError"
    /\ handled_last.call_id = 1
    /\ ~handled_last.result
    /\ Len(logged) = 1
    /\ logged[1].type = "error"
    /\ logged[1].metadata.call_id = 1

\* Notification task i hands its event to the k-th subscriber in this step:
\* the await of the subscriber before it ended and the for loop of
\* _notify_callbacks calls the next callback.
HandsTo(i, k) ==
    /\ i <= Len(notifications)
    /\ k <= Len(ha_callbacks)
    /\ notifications[i].pos < k
    /\ notifications'[i].pos = k

\* Notification task j has handed its event to the k-th subscriber already,
\* or has ended.
HandedTo(j, k) ==
    \/ notifications[j].state = "done"
    \/ notifications[j].pos >= k

\* C40: a subscriber receives the events in the order in which they were
\* logged: when the task of an event hands it to a subscriber, the task of
\* every event logged before has handed its event to that subscriber
\* already, however long the subscribers before it took on the earlier event.
C40_SubscribersReceiveInLoggedOrder ==
    [][\A i \in 1..Len(notifications), k \in 2..Len(ha_callbacks) :
          HandsTo(i, k) =>
              \A j \in 1..(i - 1) :
                  notifications[j].event < notifications[i].event =>
                      HandedTo(j, k)]_vars

====
